---- MODULE Spec2Model ----
(***************************************************************************)
(* PokeProxy: a signed-message ingestion proxy.                            *)
(*                                                                         *)
(* The module models                                                       *)
(*   - app/services/stats.py      StatsCollector (bounded LRU metrics)     *)
(*   - app/services/proxy_rules.py  find_matching_rule                     *)
(*   - app/routers/stream.py      the request pipeline `stream`            *)
(*                                                                         *)
(* Concurrency.  Each request (and each direct caller of the collector) is *)
(* a task.  Tasks interleave at statement granularity; this contains every *)
(* interleaving the asyncio event loop can produce (which switches tasks   *)
(* only at an await), so a safety property of the model is one of the      *)
(* program, and the asyncio.Lock is what serialises the collector.         *)
(***************************************************************************)
EXTENDS Integers, Sequences, FiniteSets, TLC

VARIABLES
    app_state,  \* AppState: secret, config, http_client (state.py)
    stats,      \* StatsCollector._stats: OrderedDict, oldest first
    lock,       \* StatsCollector._lock: the task holding it, or None
    pc,         \* per task: the statement it is about to execute
    request,    \* per task: the inbound request being handled
    local,      \* per task: the local variables of `stream`
    call,       \* per task: the frame of its record_request call
    response,   \* per task: the response handed to the boundary layer
    events,     \* per task: history of the collaborators it invoked
    clock,      \* history: number of record_request calls linearised
    lastCall,   \* history: per identity, clock of its most recent call
    lastUrl,    \* history: identity of the most recent call
    tally,      \* history: per identity, sums over the completed calls
                \*          since the identity was last inserted
    evicted,    \* history: the identity evicted last
    started,    \* history: calls / requests started in the behaviour
    arg,        \* the arguments of a function applied on its own
    result      \* the value it returned

vars == <<app_state, stats, lock, pc, request, local, call, response,
          events, clock, lastCall, lastUrl, tally, evicted, started, arg, result>>

None == "None"

(***************************************************************************)
(* Bounds of the model.                                                    *)
(***************************************************************************)
\* StatsCollector capacity.  The program's value is 1000 (stats.py:13);
\* the model scales it down so that eviction happens within the bounds.
MAX_ENDPOINTS == 2

\* Total number of record_request calls / requests started in a behaviour.
MaxCalls == 4

\* Largest byte count passed to record_request by a direct caller.
MaxBytes == 2

\* Largest elapsed time (ms, rounded) of one call.
MaxElapsed == 1

Tasks == {"t1", "t2"}

UNMATCHED == "__unmatched__"

\* Destination identities: the rule URLs and the sentinel.
Urls == {"http://a", "http://b", UNMATCHED}

(***************************************************************************)
(* Sequence helpers.                                                       *)
(***************************************************************************)
Range(s) == {s[i] : i \in 1..Len(s)}

RECURSIVE SeqFilterOut(_, _)
\* s without the entries whose url is u, order kept
SeqFilterOut(s, u) ==
    IF s = <<>> THEN <<>>
    ELSE IF Head(s).url = u THEN SeqFilterOut(Tail(s), u)
         ELSE <<Head(s)>> \o SeqFilterOut(Tail(s), u)

\* the identities of an OrderedDict, in order
Keys(s) == [i \in 1..Len(s) |-> s[i].url]

KeySet(s) == {s[i].url : i \in 1..Len(s)}

\* s[url] for a url in the dict
Entry(s, u) == (CHOOSE i \in 1..Len(s) : s[i].url = u)

Get(s, u) == s[Entry(s, u)].st

(***************************************************************************)
(* app/services/stats.py                                                   *)
(***************************************************************************)
\* EndpointStats(): a zeroed counters entry
\* a fresh entry that already counts an error
PresetStats ==
    [request_count |-> 0, error_count |-> 1, incoming_bytes |-> 0,
     outgoing_bytes |-> 0, total_response_time_ms |-> 0]

EndpointStats ==
    [request_count |-> 0, error_count |-> 0, incoming_bytes |-> 0,
     outgoing_bytes |-> 0, total_response_time_ms |-> 0]

\* `len(self._stats) >= MAX_ENDPOINTS`
AtCapacityOffByOne(s) == Len(s) > MAX_ENDPOINTS
AtCapacity(s) == Len(s) >= MAX_ENDPOINTS

\* `self._stats.popitem(last=False)`: drop the first (oldest) item
PopNewest(s) == SubSeq(s, 1, Len(s) - 1)
popitem_first(s) == Tail(s)

\* `self._stats.move_to_end(url)`
MoveNowhere(s, u) == s
move_to_end(s, u) == SeqFilterOut(s, u) \o <<s[Entry(s, u)]>>

\* an insertion that starts the new entry with a request already counted
setitem_counted(s, u) ==
    Append(s, [url |-> u, st |-> [EndpointStats EXCEPT !.request_count = 1]])

\* `self._stats[url] = EndpointStats()` for a url not in the dict
setitem_new(s, u) == Append(s, [url |-> u, st |-> EndpointStats])

\* lines 65-72 of record_request: the structural part
Lookup(s, u) ==
    IF u \notin KeySet(s)
    THEN setitem_new(IF AtCapacity(s) THEN popitem_first(s) ELSE s, u)
    ELSE move_to_end(s, u)

\* history record of an identity: nothing completed since its insertion
TallyZero ==
    [inserted |-> 0, overlapped |-> FALSE,
     request_count |-> 0, error_count |-> 0, incoming_bytes |-> 0,
     outgoing_bytes |-> 0, total_response_time_ms |-> 0]

NoEviction == [url |-> None, inserted |-> 0, lastCall |-> 0]

\* `async with self._lock`: the lock can be taken when nobody holds it
LockIgnored(l) == TRUE
LockFree(l) == l = None

\* the frame of a record_request call
Frame(u, inb, outb, ms, err, ret) ==
    [url |-> u, incoming_bytes |-> inb, outgoing_bytes |-> outb,
     response_time_ms |-> ms, is_error |-> err, ret |-> ret,
     loaded |-> EndpointStats]

NoFrame == Frame(None, 0, 0, 0, FALSE, None)

\* `async with self._lock:` entry
rr_acquire(t) ==
    /\ pc[t] = "rr_acquire"
    /\ LockFree(lock)
    /\ lock' = t
    /\ pc' = [pc EXCEPT ![t] = "rr_lookup"]
    /\ UNCHANGED <<arg, result, app_state, stats, request, local, call, response, events,
                   clock, lastCall, lastUrl, tally, evicted, started>>

\* lines 65-72: insert (evicting the oldest at capacity) or move to end
rr_lookup(t) ==
    /\ pc[t] = "rr_lookup"
    /\ stats' = Lookup(stats, call[t].url)
    /\ clock' = clock + 1
    /\ lastCall' = [d \in Urls |->
                      IF d = call[t].url THEN clock + 1
                      ELSE IF d \in KeySet(stats') THEN lastCall[d] ELSE 0]
    /\ lastUrl' = call[t].url
    /\ tally' = [d \in Urls |->
                   IF d \in KeySet(stats') /\ d \in KeySet(stats)
                   THEN tally[d]
                   ELSE IF d \in KeySet(stats')
                        THEN [TallyZero EXCEPT !.inserted = clock + 1]
                        ELSE TallyZero]
    /\ evicted' = LET gone == KeySet(stats) \ KeySet(stats')
                  IN IF gone = {} THEN evicted
                     ELSE LET d == CHOOSE d \in gone : TRUE
                          IN [url |-> d, inserted |-> tally[d].inserted,
                              lastCall |-> lastCall[d]]
    /\ pc' = [pc EXCEPT ![t] = "rr_load"]
    /\ UNCHANGED <<arg, result, app_state, lock, request, local, call, response, events,
                   started>>

\* line 74 and the reads of lines 75-80: `stats = self._stats[url]`
rr_load(t) ==
    /\ pc[t] = "rr_load"
    /\ call' = [call EXCEPT ![t].loaded =
                  IF call[t].url \in KeySet(stats)
                  THEN Get(stats, call[t].url) ELSE EndpointStats]
    /\ pc' = [pc EXCEPT ![t] = "rr_store"]
    /\ UNCHANGED <<arg, result, app_state, stats, lock, request, local, response, events,
                   clock, lastCall, lastUrl, tally, evicted, started>>

\* the value written by `stats.request_count += 1`
ResetCount(n) == 1
IncrCount(n) == n + 1

\* lines 75-78: the writes of the request and byte counters
StoreCounters(st, c) ==
    [st EXCEPT !.request_count = IncrCount(c.loaded.request_count),
               !.incoming_bytes = c.loaded.incoming_bytes + c.incoming_bytes,
               !.outgoing_bytes = c.loaded.outgoing_bytes + c.outgoing_bytes,
               !.total_response_time_ms =
                   c.loaded.total_response_time_ms + c.response_time_ms]

\* an error count that grows with every call
StoreErrorAlways(st, c) == [st EXCEPT !.error_count = c.loaded.error_count + 1]

\* lines 79-80: `if is_error: stats.error_count += 1`
StoreError(st, c) ==
    IF c.is_error THEN [st EXCEPT !.error_count = c.loaded.error_count + 1]
    ELSE st

\* a write that reaches every entry of the dict
WriteAll(s, u, new) == [i \in 1..Len(s) |-> [s[i] EXCEPT !.st = new]]

\* write through the reference `stats` (an entry evicted meanwhile is a
\* detached object: the write does not reach the dict)
WriteEntry(s, u, new) ==
    [i \in 1..Len(s) |-> IF s[i].url = u THEN [s[i] EXCEPT !.st = new]
                         ELSE s[i]]

rr_store(t) ==
    /\ pc[t] = "rr_store"
    /\ stats' = IF call[t].url \in KeySet(stats)
                THEN WriteEntry(stats, call[t].url,
                                StoreCounters(Get(stats, call[t].url),
                                              call[t]))
                ELSE stats
    /\ pc' = [pc EXCEPT ![t] = "rr_error"]
    /\ UNCHANGED <<arg, result, app_state, lock, request, local, call, response, events,
                   clock, lastCall, lastUrl, tally, evicted, started>>

rr_error(t) ==
    /\ pc[t] = "rr_error"
    /\ stats' = IF call[t].url \in KeySet(stats)
                THEN WriteEntry(stats, call[t].url,
                                StoreError(Get(stats, call[t].url), call[t]))
                ELSE stats
    /\ pc' = [pc EXCEPT ![t] = "rr_release"]
    /\ UNCHANGED <<arg, result, app_state, lock, request, local, call, response, events,
                   clock, lastCall, lastUrl, tally, evicted, started>>

\* another task is waiting to record on the same identity
Contended(t) ==
    \E o \in Tasks \ {t} : pc[o] = "rr_acquire" /\ call[o].url = call[t].url

\* what one completed call adds to the sums of its identity
Tallied(old, c, overlapped) ==
    [inserted |-> old.inserted,
     overlapped |-> old.overlapped \/ overlapped,
     request_count |-> old.request_count + 1,
     error_count |-> old.error_count + (IF c.is_error THEN 1 ELSE 0),
     incoming_bytes |-> old.incoming_bytes + c.incoming_bytes,
     outgoing_bytes |-> old.outgoing_bytes + c.outgoing_bytes,
     total_response_time_ms |->
         old.total_response_time_ms + c.response_time_ms]

\* a return that leaves the lock held
rr_return_locked(t) ==
    /\ pc[t] = "rr_release"
    /\ tally' = [tally EXCEPT ![call[t].url] = Tallied(@, call[t], Contended(t))]
    /\ pc' = [pc EXCEPT ![t] = call[t].ret]
    /\ call' = [call EXCEPT ![t] = NoFrame]
    /\ events' = [events EXCEPT ![t] = Append(@, "recorded")]
    /\ UNCHANGED <<arg, result, app_state, stats, lock, request, local,
                   response, clock, lastCall, lastUrl, evicted, started>>

\* exit of `async with self._lock`; the call returns to its caller
rr_release(t) ==
    /\ pc[t] = "rr_release"
    /\ lock' = None
    /\ tally' = [tally EXCEPT ![call[t].url] = Tallied(@, call[t], Contended(t))]
    /\ pc' = [pc EXCEPT ![t] = call[t].ret]
    /\ call' = [call EXCEPT ![t] = NoFrame]
    /\ events' = [events EXCEPT ![t] = Append(@, "recorded")]
    /\ UNCHANGED <<arg, result, app_state, stats, request, local, response,
                   clock, lastCall, lastUrl, evicted, started>>

record_request(t) ==
    \/ rr_acquire(t)
    \/ rr_lookup(t)
    \/ rr_load(t)
    \/ rr_store(t)
    \/ rr_error(t)
    \/ rr_release(t)

(***************************************************************************)
(* Strings.  A Python str is a sequence of characters; the characters of   *)
(* the model are listed in code-point order, which is the order `<` and    *)
(* `>` compare strings by.                                                 *)
(***************************************************************************)
Alphabet ==
    <<"\t", " ", "!", "+", "-", "0", "1", "2", "3", "4", "5", "6", "7",
    "8", "9", "<", "=", ">", "A", "B", "C", "D", "E", "F", "G", "H",
    "I", "J", "K", "L", "M", "N", "O", "P", "Q", "R", "S", "T", "U",
    "V", "W", "X", "Y", "Z", "_", "a", "b", "c", "d", "e", "f", "g",
    "h", "i", "j", "k", "l", "m", "n", "o", "p", "q", "r", "s", "t",
    "u", "v", "w", "x", "y", "z">>

Code(c) == CHOOSE i \in 1..Len(Alphabet) : Alphabet[i] = c

Digits == {"0", "1", "2", "3", "4", "5", "6", "7", "8", "9"}

UpperCase == {Alphabet[i] : i \in Code("A")..Code("Z")}

\* `\w`
WordChars == {Alphabet[i] : i \in Code("0")..Code("9")}
             \cup {Alphabet[i] : i \in Code("A")..Code("Z")}
             \cup {Alphabet[i] : i \in Code("a")..Code("z")} \cup {"_"}

\* `\s`
SpaceChars == {" ", "\t"}

\* str.lower()
LowerChar(c) ==
    IF c \in UpperCase THEN Alphabet[Code(c) - Code("A") + Code("a")] ELSE c

Lower(s) == [i \in 1..Len(s) |-> LowerChar(s[i])]

\* str.upper()
UpperChar(c) ==
    IF c \in {Alphabet[i] : i \in Code("a")..Code("z")}
    THEN Alphabet[Code(c) - Code("a") + Code("A")] ELSE c

Upper(s) == [i \in 1..Len(s) |-> UpperChar(s[i])]

\* s1 < s2 on Python strings (lexicographic by code point)
RECURSIVE StrLess(_, _)
StrLess(s1, s2) ==
    IF s2 = <<>> THEN FALSE
    ELSE IF s1 = <<>> THEN TRUE
    ELSE IF Head(s1) = Head(s2) THEN StrLess(Tail(s1), Tail(s2))
    ELSE Code(Head(s1)) < Code(Head(s2))

\* the first index j >= i of s that is past the end or not in class C
RunEnd(s, i, C) ==
    CHOOSE j \in i..(Len(s) + 1) :
        /\ \A k \in i..(j - 1) : s[k] \in C
        /\ (j = Len(s) + 1 \/ s[j] \notin C)

\* s without leading and trailing whitespace
Strip(s) ==
    LET a == RunEnd(s, 1, SpaceChars)
        b == CHOOSE j \in (a - 1)..Len(s) :
                 /\ \A k \in (j + 1)..Len(s) : s[k] \in SpaceChars
                 /\ (j = a - 1 \/ s[j] \notin SpaceChars)
    IN SubSeq(s, a, b)

DigitValue(c) == Code(c) - Code("0")

RECURSIVE DigitsValue(_, _)
DigitsValue(s, acc) ==
    IF s = <<>> THEN acc
    ELSE DigitsValue(Tail(s), IF Head(s) = "_" THEN acc
                              ELSE 10 * acc + DigitValue(Head(s)))

\* int(s) accepts: whitespace, an optional sign, digits, single underscores
\* between digits
IntBody(s) ==
    LET t == Strip(s)
    IN IF t # <<>> /\ Head(t) \in {"+", "-"} THEN Tail(t) ELSE t

IsIntLiteral(s) ==
    LET b == IntBody(s)
    IN /\ b # <<>>
       /\ \A i \in 1..Len(b) : b[i] \in Digits \cup {"_"}
       /\ b[1] # "_" /\ b[Len(b)] # "_"
       /\ \A i \in 1..(Len(b) - 1) : ~(b[i] = "_" /\ b[i + 1] = "_")

\* int(s) for a literal int() accepts
IntOf(s) ==
    LET t == Strip(s)
        v == DigitsValue(IntBody(s), 0)
    IN IF Head(t) = "-" THEN 0 - v ELSE v

(***************************************************************************)
(* Python values and results.                                              *)
(***************************************************************************)
PyInt(n) == [t |-> "int", i |-> n, b |-> FALSE, s |-> <<>>]
PyBool(x) == [t |-> "bool", i |-> 0, b |-> x, s |-> <<>>]
PyStr(x) == [t |-> "str", i |-> 0, b |-> FALSE, s |-> x]
\* a bound method of the message object (an attribute that is no field)
PyMethod == [t |-> "method", i |-> 0, b |-> FALSE, s |-> <<>>]

\* a call returns a value or raises
Return(v) == [exc |-> None, val |-> v]
Raise(e) == [exc |-> e, val |-> FALSE]

(***************************************************************************)
(* The entity: a Pokemon message (fields as conftest.create_pokemon sets   *)
(* them).                                                                  *)
(***************************************************************************)
S_number == <<"n", "u", "m", "b", "e", "r">>
S_name == <<"n", "a", "m", "e">>
S_type_one == <<"t", "y", "p", "e", "_", "o", "n", "e">>
S_type_two == <<"t", "y", "p", "e", "_", "t", "w", "o">>
S_hit_points == <<"h", "i", "t", "_", "p", "o", "i", "n", "t", "s">>
S_attack == <<"a", "t", "t", "a", "c", "k">>
S_defense == <<"d", "e", "f", "e", "n", "s", "e">>
S_speed == <<"s", "p", "e", "e", "d">>
S_legendary == <<"l", "e", "g", "e", "n", "d", "a", "r", "y">>
S_generation == <<"g", "e", "n", "e", "r", "a", "t", "i", "o", "n">>
S_ByteSize == <<"B", "y", "t", "e", "S", "i", "z", "e">>

FieldNames == {S_number, S_name, S_type_one, S_type_two, S_hit_points,
              S_attack, S_defense, S_speed, S_legendary, S_generation}

\* every name is an attribute
EveryAttribute(pokemon, field_name) == TRUE

\* hasattr(pokemon, field_name): the fields, and the methods of the message
\* class (one of them is modelled)
hasattr(pokemon, field_name) == field_name \in FieldNames \cup {S_ByteSize}

\* getattr(pokemon, field_name)
getattr(pokemon, field_name) ==
    CASE field_name = S_number -> PyInt(pokemon.number)
      [] field_name = S_name -> PyStr(pokemon.name)
      [] field_name = S_type_one -> PyStr(pokemon.type_one)
      [] field_name = S_type_two -> PyStr(pokemon.type_two)
      [] field_name = S_hit_points -> PyInt(pokemon.hit_points)
      [] field_name = S_attack -> PyInt(pokemon.attack)
      [] field_name = S_defense -> PyInt(pokemon.defense)
      [] field_name = S_speed -> PyInt(pokemon.speed)
      [] field_name = S_legendary -> PyBool(pokemon.legendary)
      [] field_name = S_generation -> PyInt(pokemon.generation)
      [] OTHER -> PyMethod

(***************************************************************************)
(* app/services/proxy_rules.py                                             *)
(***************************************************************************)
\* a match object where the pattern found none
MatchedAnyway == [ok |-> TRUE, field_name |-> S_name, operator |-> "!=",
                  expected_value |-> <<>>]

NoMatch == [ok |-> FALSE, field_name |-> <<>>, operator |-> None,
            expected_value |-> <<>>]

\* the operator at position c of s: `(==|!=|>|<)`
OperatorAt(s, c) ==
    IF c + 1 <= Len(s) /\ s[c] = "=" /\ s[c + 1] = "=" THEN "=="
    ELSE IF c + 1 <= Len(s) /\ s[c] = "!" /\ s[c + 1] = "=" THEN "!="
    ELSE IF c <= Len(s) /\ s[c] = ">" THEN ">"
    ELSE IF c <= Len(s) /\ s[c] = "<" THEN "<"
    ELSE None

\* _MATCH_PATTERN.match(condition):
\*     ^\s*(\w+)\s*(==|!=|>|<)\s*(.+?)\s*$
\* The name is the longest run of word characters; the value is the rest
\* without its surrounding whitespace, and the last whitespace character
\* when the rest is nothing but whitespace (`.+?` needs one character).
MatchPattern(s) ==
    LET a == RunEnd(s, 1, SpaceChars)
        b == RunEnd(s, a, WordChars)
        c == RunEnd(s, b, SpaceChars)
        op == OperatorAt(s, c)
        d == c + (IF op \in {"==", "!="} THEN 2 ELSE 1)
        rest == SubSeq(s, d, Len(s))
    IN IF b = a \/ op = None \/ rest = <<>> THEN NoMatch
       ELSE [ok |-> TRUE, field_name |-> SubSeq(s, a, b - 1),
             operator |-> op,
             expected_value |-> IF Strip(rest) = <<>>
                                THEN <<rest[Len(rest)]>> ELSE Strip(rest)]

S_true == <<"t", "r", "u", "e">>
S_1 == <<"1">>
S_yes == <<"y", "e", "s">>

\* a coercion that looks for the tokens as they are spelt
CaseSensitiveCoerce(field_value, expected_value) ==
    IF field_value.t = "bool"
    THEN PyBool(expected_value \in {S_true, S_1, S_yes})
    ELSE IF field_value.t = "int" /\ IsIntLiteral(expected_value)
         THEN PyInt(IntOf(expected_value))
         ELSE PyStr(expected_value)

\* lines 87-95: convert the expected value to the type of the field
Coerce(field_value, expected_value) ==
    IF field_value.t = "bool"
    THEN PyBool(Lower(expected_value) \in {S_true, S_1, S_yes})
    ELSE IF field_value.t = "int" /\ IsIntLiteral(expected_value)
         THEN PyInt(IntOf(expected_value))
         ELSE PyStr(expected_value)

\* Python's a == b on the values of the model
PyEq(a, b) ==
    /\ a.t = b.t
    /\ a.t # "method"
    /\ a.i = b.i /\ a.b = b.b /\ a.s = b.s

\* an ordering defined on integers alone
IntOnlyLess(a, b) ==
    IF a.t = "int" /\ b.t = "int" THEN Return(a.i < b.i)
    ELSE Raise("TypeError")

\* Python's a < b: defined within int, bool and str; a TypeError otherwise
PyLess(a, b) ==
    IF a.t = "int" /\ b.t = "int" THEN Return(a.i < b.i)
    ELSE IF a.t = "bool" /\ b.t = "bool" THEN Return(~a.b /\ b.b)
    ELSE IF a.t = "str" /\ b.t = "str" THEN Return(StrLess(a.s, b.s))
    ELSE Raise("TypeError")

\* lines 98-107: evaluate the operator
Compare(field_value, operator, expected) ==
    CASE operator = "==" -> Return(PyEq(field_value, expected))
      [] operator = "!=" -> Return(~PyEq(field_value, expected))
      [] operator = ">" -> PyLess(expected, field_value)
      [] operator = "<" -> PyLess(field_value, expected)
      [] OTHER -> Return(FALSE)

\* _evaluate_condition(pokemon, condition)
_evaluate_condition(pokemon, condition) ==
    LET m == MatchPattern(condition)
    IN IF ~m.ok THEN Return(FALSE)
       ELSE IF ~hasattr(pokemon, m.field_name) THEN Return(FALSE)
       ELSE LET field_value == getattr(pokemon, m.field_name)
            IN Compare(field_value, m.operator,
                       Coerce(field_value, m.expected_value))

\* any(...) in place of all(...)
AnyCondition(pokemon, match) ==
    Return(\E i \in 1..Len(match) :
              _evaluate_condition(pokemon, match[i]) = Return(TRUE))

\* all(_evaluate_condition(pokemon, cond) for cond in match): the
\* conditions are evaluated in order up to the first false one; an
\* exception raised on the way propagates
RECURSIVE AllConditions(_, _)
AllConditions(pokemon, match) ==
    IF match = <<>> THEN Return(TRUE)
    ELSE LET r == _evaluate_condition(pokemon, Head(match))
         IN IF r.exc # None THEN r
            ELSE IF ~r.val THEN Return(FALSE)
            ELSE AllConditions(pokemon, Tail(match))

NoRule == [url |-> None, reason |-> None, match |-> <<>>]

\* the last rule of the list whose conditions are all true
LastMatchingRule(pokemon, rules) ==
    LET M == {i \in 1..Len(rules) :
                 AllConditions(pokemon, rules[i].match) = Return(TRUE)}
    IN IF M = {} THEN Return(NoRule)
       ELSE Return(rules[CHOOSE i \in M : \A j \in M : j <= i])

\* find_matching_rule(pokemon, rules): the value returned (NoRule for
\* None), or the exception raised
RECURSIVE find_matching_rule(_, _)
find_matching_rule(pokemon, rules) ==
    IF rules = <<>> THEN [exc |-> None, val |-> NoRule]
    ELSE LET r == AllConditions(pokemon, Head(rules).match)
         IN IF r.exc # None THEN [exc |-> r.exc, val |-> NoRule]
            ELSE IF r.val THEN [exc |-> None, val |-> Head(rules)]
            ELSE find_matching_rule(pokemon, Tail(rules))

(***************************************************************************)
(* Header bags.  A dict of headers is a set of <<name, value>> pairs with  *)
(* distinct names; names and the values the code inspects are strings.     *)
(***************************************************************************)
H_content_length ==
    <<"c", "o", "n", "t", "e", "n", "t", "-", "l", "e", "n", "g", "t",
    "h">>
H_content_type ==
    <<"c", "o", "n", "t", "e", "n", "t", "-", "t", "y", "p", "e">>
H_host == <<"h", "o", "s", "t">>
H_x_grd_signature ==
    <<"x", "-", "g", "r", "d", "-", "s", "i", "g", "n", "a", "t", "u",
    "r", "e">>
H_X_Grd_Signature ==
    <<"X", "-", "G", "r", "d", "-", "S", "i", "g", "n", "a", "t", "u",
    "r", "e">>
H_X_Grd_Reason ==
    <<"X", "-", "G", "r", "d", "-", "R", "e", "a", "s", "o", "n">>
H_Content_Type ==
    <<"C", "o", "n", "t", "e", "n", "t", "-", "T", "y", "p", "e">>
H_x_trace == <<"x", "-", "t", "r", "a", "c", "e">>
H_connection == <<"c", "o", "n", "n", "e", "c", "t", "i", "o", "n">>
H_keep_alive == <<"k", "e", "e", "p", "-", "a", "l", "i", "v", "e">>
H_transfer_encoding ==
    <<"t", "r", "a", "n", "s", "f", "e", "r", "-", "e", "n", "c", "o",
    "d", "i", "n", "g">>
H_content_encoding ==
    <<"c", "o", "n", "t", "e", "n", "t", "-", "e", "n", "c", "o", "d",
    "i", "n", "g">>
H_te == <<"t", "e">>
H_trailers == <<"t", "r", "a", "i", "l", "e", "r", "s">>
H_upgrade == <<"u", "p", "g", "r", "a", "d", "e">>
H_x_custom_response ==
    <<"x", "-", "c", "u", "s", "t", "o", "m", "-", "r", "e", "s", "p",
    "o", "n", "s", "e">>

Absent == [present |-> FALSE, v |-> <<>>]
Some(v) == [present |-> TRUE, v |-> v]

\* Python truthiness of an optional string: None and "" are falsy
Truthy(x) == x.present /\ x.v # <<>>

DictKeys(d) == {p[1] : p \in d}

\* d[k] = v
DictSet(d, k, v) == {p \in d : p[1] # k} \cup {<<k, v>>}

\* request.headers.get(name): header names are case-insensitive there and
\* stored in lower case
HeadersGet(d, name) ==
    IF Lower(name) \in DictKeys(d)
    THEN Some((CHOOSE p \in d : p[1] = Lower(name))[2])
    ELSE Absent

(***************************************************************************)
(* app/services/security.py                                                *)
(***************************************************************************)
HexChars ==
    <<"0", "1", "2", "3", "4", "5", "6", "7", "8", "9",
      "a", "b", "c", "d", "e", "f">>

\* a character outside ASCII (a header value is decoded as latin-1)
NonAscii == {"e-acute"}

Secrets == <<"test-secret", "other-secret">>

SECRET == Secrets[1]

(***************************************************************************)
(* The wire format.  A body is a sequence of encoded fields; an element    *)
(* that is no well-formed field makes the body malformed.  A field takes   *)
(* one byte for its tag and one per character (or one for a number or a    *)
(* flag).                                                                  *)
(***************************************************************************)
WName(s) == [field |-> "name", s |-> s, i |-> 0, b |-> FALSE]
WInt(f, n) == [field |-> f, s |-> <<>>, i |-> n, b |-> FALSE]
WBool(f, x) == [field |-> f, s |-> <<>>, i |-> 0, b |-> x]
WBad == [field |-> "malformed", s |-> <<>>, i |-> 0, b |-> FALSE]

RECURSIVE ByteLen(_)
\* len(body)
ByteLen(body) ==
    IF body = <<>> THEN 0
    ELSE (IF Head(body).field = "malformed" THEN 1
          ELSE IF Head(body).field = "name" THEN 1 + Len(Head(body).s)
          ELSE 2) + ByteLen(Tail(body))

\* pokemon_pb2.Pokemon(): every field at its proto3 default
DefaultPokemon ==
    [number |-> 0, name |-> <<>>, type_one |-> <<>>, type_two |-> <<>>,
     hit_points |-> 0, attack |-> 0, defense |-> 0, speed |-> 0,
     legendary |-> FALSE, generation |-> 0]

\* merge one decoded field into the message (the last occurrence wins)
MergeField(p, w) ==
    CASE w.field = "name" -> [p EXCEPT !.name = w.s]
      [] w.field = "attack" -> [p EXCEPT !.attack = w.i]
      [] w.field = "hit_points" -> [p EXCEPT !.hit_points = w.i]
      [] w.field = "legendary" -> [p EXCEPT !.legendary = w.b]
      [] OTHER -> p

RECURSIVE MergeFields(_, _)
MergeFields(p, body) ==
    IF body = <<>> THEN p
    ELSE MergeFields(MergeField(p, Head(body)), Tail(body))

\* pokemon.ParseFromString(body): the message, or DecodeError
ParseFromString(body) ==
    IF \E i \in 1..Len(body) : body[i].field = "malformed"
    THEN [exc |-> "DecodeError", val |-> DefaultPokemon]
    ELSE [exc |-> None, val |-> MergeFields(DefaultPokemon, body)]

\* len(json.dumps(pokemon_to_json(pokemon)).encode()): every field is
\* printed, the strings at their length
JsonLen(pokemon) ==
    10 + Len(pokemon.name) + Len(pokemon.type_one) + Len(pokemon.type_two)

B_empty == <<>>
B_garbage == <<WBad>>
B_noname == <<WInt("attack", 150)>>
B_mew == <<WName(<<"M", "e", "w">>), WBool("legendary", TRUE)>>
B_pika == <<WName(<<"P", "i", "k", "a">>), WInt("attack", 55)>>
B_drag ==
    <<WName(<<"D", "r", "a">>), WInt("attack", 134), WInt("hit_points", 91)>>
B_big ==
    <<WName(<<"S", "n", "o", "r", "l", "a", "x", "x", "x", "x">>),
      WInt("attack", 110)>>

\* the bodies of the model; a body's place in the list stands for its bytes
\* in the digest
AllBodies == <<B_empty, B_garbage, B_noname, B_mew, B_pika, B_drag, B_big>>

Bodies == Range(AllBodies)

IndexOf(seq, x) == CHOOSE i \in 1..Len(seq) : seq[i] = x

\* a digest that does not depend on the key
KeylessDigest(secret, body) ==
    <<HexChars[11], HexChars[IndexOf(AllBodies, body)]>>

\* hmac.new(secret, body, hashlib.sha256).hexdigest(): lower-case hex,
\* modelled as an injective code of (secret, body)
hexdigest(secret, body) ==
    <<HexChars[10 + IndexOf(Secrets, secret)],
      HexChars[IndexOf(AllBodies, body)]>>

\* a comparison that ignores letter case
CaseBlind(a, b) == Return(Lower(a) = Lower(b))

\* hmac.compare_digest(a, b) on two str: a TypeError unless both are ASCII
compare_digest(a, b) ==
    IF \E i \in 1..Len(b) : b[i] \in NonAscii THEN Raise("TypeError")
    ELSE Return(a = b)

\* `except (ValueError, TypeError): return False`
Caught(r) == IF r.exc # None THEN FALSE ELSE r.val

AcceptAnySignature(body, signature, secret) == TRUE
\* validate_signature(body, signature, secret)
validate_signature(body, signature, secret) ==
    IF secret = None THEN FALSE
    ELSE Caught(compare_digest(hexdigest(secret, body), signature))

(***************************************************************************)
(* The request pipeline: app/routers/stream.py and app/services/proxy.py.  *)
(***************************************************************************)
\* pokeproxy_max_body_size (4096 in the program, scaled down)
MAX_BODY_SIZE == 8

NoExc == [type |-> None, status_code |-> 0, detail |-> ""]

HTTPException(status_code, detail) ==
    [type |-> "HTTPException", status_code |-> status_code, detail |-> detail]

\* an exception no handler catches: the server answers 500
Unhandled(e) ==
    [type |-> e, status_code |-> 500, detail |-> "Internal Server Error"]

NoConfig == [loaded |-> FALSE, rules |-> <<>>]
ProxyConfig(rules) == [loaded |-> TRUE, rules |-> rules]

\* int(content_length) > max_body_size, a ValueError being passed over
DeclaredTooLarge(content_length) ==
    IF IsIntLiteral(content_length)
    THEN IntOf(content_length) > MAX_BODY_SIZE
    ELSE FALSE

SecretUnchecked(headers) ==
    IF /\ Truthy(HeadersGet(headers, H_content_length))
       /\ DeclaredTooLarge(HeadersGet(headers, H_content_length).v)
    THEN HTTPException(413, "Request body too large")
    ELSE IF ~Truthy(HeadersGet(headers, H_X_Grd_Signature))
    THEN HTTPException(401, "Missing X-Grd-Signature header")
    ELSE NoExc

\* the secret looked at before the signature
SecretFirst(headers) ==
    IF /\ Truthy(HeadersGet(headers, H_content_length))
       /\ DeclaredTooLarge(HeadersGet(headers, H_content_length).v)
    THEN HTTPException(413, "Request body too large")
    ELSE IF app_state.secret = None
    THEN HTTPException(500, "Internal server error")
    ELSE IF ~Truthy(HeadersGet(headers, H_X_Grd_Signature))
    THEN HTTPException(401, "Missing X-Grd-Signature header")
    ELSE NoExc

\* validate_request_signature up to the read of the body
validate_declared(headers) ==
    LET content_length == HeadersGet(headers, H_content_length)
        signature == HeadersGet(headers, H_X_Grd_Signature)
    IN IF Truthy(content_length) /\ DeclaredTooLarge(content_length.v)
       THEN HTTPException(413, "Request body too large")
       ELSE IF ~Truthy(signature)
       THEN HTTPException(401, "Missing X-Grd-Signature header")
       ELSE IF app_state.secret = None
       THEN HTTPException(500, "Internal server error")
       ELSE NoExc

SizeOnly(body) ==
    IF ByteLen(body) > MAX_BODY_SIZE
    THEN HTTPException(413, "Request body too large")
    ELSE NoExc
EmptyOnly(body) ==
    IF body = <<>> THEN HTTPException(400, "Empty request body") ELSE NoExc
\* validate_request_signature lines 69-75: the size of the body read, then
\* its emptiness
check_body(body) ==
    IF ByteLen(body) > MAX_BODY_SIZE
    THEN HTTPException(413, "Request body too large")
    ELSE IF body = <<>>
    THEN HTTPException(400, "Empty request body")
    ELSE NoExc

\* validate_request_signature lines 77-78
check_signature(headers, body) ==
    IF ~validate_signature(body, HeadersGet(headers, H_X_Grd_Signature).v,
                           app_state.secret)
    THEN HTTPException(401, "Invalid signature")
    ELSE NoExc

NamelessAccepted(body) ==
    IF ParseFromString(body).exc # None
    THEN [exc |-> HTTPException(400, "Failed to parse protobuf"),
          val |-> DefaultPokemon]
    ELSE [exc |-> NoExc, val |-> ParseFromString(body).val]
parse_pokemon_protobuf(body) ==
    LET parsed == ParseFromString(body)
    IN IF parsed.exc # None
       THEN [exc |-> HTTPException(400, "Failed to parse protobuf"),
             val |-> DefaultPokemon]
       ELSE IF parsed.val.name = <<>>
       THEN [exc |-> HTTPException(400, "Pokemon missing name field"),
             val |-> DefaultPokemon]
       ELSE [exc |-> NoExc, val |-> parsed.val]

\* what match_routing_rule makes of the result of find_matching_rule: an
\* exception it raised is not caught
Routed(found) ==
    IF found.exc # None
    THEN [exc |-> Unhandled(found.exc), val |-> NoRule, engine |-> TRUE]
    ELSE [exc |-> NoExc, val |-> found.val, engine |-> TRUE]

\* routing that gives up once the collector holds an entry
RoutedByLoad(pokemon) ==
    IF stats # <<>> THEN [exc |-> NoExc, val |-> NoRule, engine |-> TRUE]
    ELSE IF ~app_state.config.loaded
    THEN [exc |-> HTTPException(500, "Internal server error"),
          val |-> NoRule, engine |-> FALSE]
    ELSE Routed(find_matching_rule(pokemon, app_state.config.rules))

\* the rule engine is reached only with a configuration loaded
match_routing_rule(pokemon) ==
    IF ~app_state.config.loaded
    THEN [exc |-> HTTPException(500, "Internal server error"),
          val |-> NoRule, engine |-> FALSE]
    ELSE Routed(find_matching_rule(pokemon, app_state.config.rules))

\* the classes an exception is an instance of
Mro(e) ==
    CASE e = "ReadTimeout" ->
           {"ReadTimeout", "TimeoutException", "TransportError",
            "RequestError", "HTTPError", "Exception"}
      [] e = "ConnectError" ->
           {"ConnectError", "NetworkError", "TransportError",
            "RequestError", "HTTPError", "Exception"}
      [] e = "InvalidURL" -> {"InvalidURL", "Exception"}
      [] OTHER -> {}

isinstance(e, cls) == cls \in Mro(e)

\* a dispatch failure answered as a fault of the request
BlameCaller(error, url) == HTTPException(400, "Bad request")

ConnectivityFirst(error, url) ==
    IF isinstance(error, "RequestError")
    THEN HTTPException(502, "Failed to connect to downstream service")
    ELSE IF isinstance(error, "TimeoutException")
    THEN HTTPException(504, "Downstream service timeout")
    ELSE HTTPException(502, "Failed to forward request to downstream")
_map_downstream_error(error, url) ==
    IF isinstance(error, "TimeoutException")
    THEN HTTPException(504, "Downstream service timeout")
    ELSE IF isinstance(error, "RequestError")
    THEN HTTPException(502, "Failed to connect to downstream service")
    ELSE HTTPException(502, "Failed to forward request to downstream")

HOP_BY_HOP_HEADERS ==
    {H_connection, H_keep_alive, H_transfer_encoding, H_content_encoding,
     H_te, H_trailers, H_upgrade}

\* a filter that compares the names as they are spelt
CaseSensitiveFilter(headers) ==
    {p \in headers : p[1] \notin HOP_BY_HOP_HEADERS}

_filter_response_headers(headers) ==
    {p \in headers : Lower(p[1]) \notin HOP_BY_HOP_HEADERS}

skip_headers == {H_x_grd_signature, H_content_length, H_content_type, H_host}

\* a denylist that compares the names as they are spelt
CaseSensitiveSkip(original_headers, reason) ==
    DictSet(DictSet({p \in original_headers : p[1] \notin skip_headers},
                    H_X_Grd_Reason, reason),
            H_Content_Type, "application/json")

\* the headers forward_request passes to client.post
OutboundHeaders(original_headers, reason) ==
    LET kept == {p \in original_headers : Lower(p[1]) \notin skip_headers}
        with_reason == DictSet(kept, H_X_Grd_Reason, reason)
    IN DictSet(with_reason, H_Content_Type, "application/json")

NoResponse == [status_code |-> 0, content |-> "", headers |-> {}]

\* only an exception counts as an error
ErrorOnlyRaised(error, downstream_response) == error # None

ErrorAbove400(error, downstream_response) ==
    \/ error # None
    \/ downstream_response # NoResponse
         /\ downstream_response.status_code > 400
\* error is not None or (downstream_response and status_code >= 400); an
\* httpx.Response is always truthy
IsError(error, downstream_response) ==
    \/ error # None
    \/ downstream_response # NoResponse
         /\ downstream_response.status_code >= 400

\* the record_request call of a request no rule matched
UnmatchedFrame(body, ret) == Frame(UNMATCHED, ByteLen(body), 0, 0, FALSE, ret)

NO_MATCH == "{\"status\": \"no_match\"}"

(***************************************************************************)
(* SpecStore: tasks calling the collector directly, as the tests of        *)
(* tests/test_stats.py do (asyncio.gather over record_request calls).      *)
(***************************************************************************)
NoArg == [f |-> None]
NoResult == [done |-> FALSE]
NoRequest == [headers |-> {}, body |-> <<>>]
NoLocal ==
    [body |-> <<>>, pokemon |-> DefaultPokemon, matched_rule |-> NoRule,
     outgoing_bytes |-> 0, sent |-> {}, posted |-> <<>>, error |-> None,
     downstream_response |-> NoResponse, calls |-> <<>>]

InitCommon ==
    /\ stats = <<>>
    /\ lock = None
    /\ pc = [t \in Tasks |-> "idle"]
    /\ request = [t \in Tasks |-> NoRequest]
    /\ local = [t \in Tasks |-> NoLocal]
    /\ call = [t \in Tasks |-> NoFrame]
    /\ response = [t \in Tasks |-> NoResponse]
    /\ events = [t \in Tasks |-> <<>>]
    /\ clock = 0
    /\ lastCall = [d \in Urls |-> 0]
    /\ lastUrl = None
    /\ tally = [d \in Urls |-> TallyZero]
    /\ evicted = NoEviction
    /\ started = 0
    /\ arg = NoArg
    /\ result = NoResult

\* Tasks are interchangeable: a new call or request goes to the first task
\* (in the order of TaskOrder) that is free to take it.
TaskOrder == <<"t1", "t2">>

Free(t) == pc[t] \in {"idle", "done"}

FirstFree(t) ==
    /\ Free(t)
    /\ \A i, j \in 1..Len(TaskOrder) :
           TaskOrder[j] = t /\ i < j => ~Free(TaskOrder[i])

\* the arguments a direct caller passes: a request without a destination,
\* a forwarded request, a failed one
CallArgs ==
    {[incoming |-> 1, outgoing |-> 0, ms |-> 0, is_error |-> FALSE],
     [incoming |-> MaxBytes, outgoing |-> 1, ms |-> MaxElapsed,
      is_error |-> FALSE],
     [incoming |-> 1, outgoing |-> 1, ms |-> MaxElapsed, is_error |-> TRUE]}

\* a task calls record_request(url, incoming, outgoing, ms, is_error)
CallRecord(t) ==
    /\ started < MaxCalls
    /\ FirstFree(t)
    /\ started' = started + 1
    /\ \E u \in Urls, a \in CallArgs :
          call' = [call EXCEPT ![t] =
                     Frame(u, a.incoming, a.outgoing, a.ms, a.is_error,
                           "idle")]
    /\ pc' = [pc EXCEPT ![t] = "rr_acquire"]
    /\ events' = [events EXCEPT ![t] = <<>>]
    /\ UNCHANGED <<arg, result, app_state, stats, lock, request, local, response,
                   clock, lastCall, lastUrl, tally, evicted>>

InitStore ==
    /\ InitCommon
    /\ app_state = [secret |-> None, config |-> NoConfig, http_client |-> None]

NextStore == \E t \in Tasks : CallRecord(t) \/ record_request(t)

SpecStore == InitStore /\ [][NextStore]_vars

(***************************************************************************)
(* SpecRules: find_matching_rule applied to an entity and a rule list      *)
(* drawn from bounded sets (the rules of tests/conftest.py and of          *)
(* tests/test_proxy_rules.py, and misconfigured ones).                     *)
(***************************************************************************)
Pokemon(name, attack, hit_points, speed, legendary) ==
    [number |-> 25, name |-> name, type_one |-> <<"P", "s", "y">>,
     type_two |-> <<>>, hit_points |-> hit_points, attack |-> attack,
     defense |-> 40, speed |-> speed, legendary |-> legendary,
     generation |-> 1]

Mewtwo == Pokemon(<<"M", "e", "w">>, 150, 100, 130, TRUE)
Dragonite == Pokemon(<<"D", "r", "a">>, 134, 91, 80, FALSE)
Pikachu == Pokemon(<<"P", "i", "k", "a">>, 55, 35, 90, FALSE)
Snorlax == Pokemon(<<"S", "n", "o">>, 110, 40, 30, FALSE)

Entities == {Mewtwo, Dragonite, Pikachu, Snorlax}

C_legendary == S_legendary \o <<"=", "=">> \o S_true
C_attack_gt_100 == S_attack \o <<">", "1", "0", "0">>
C_hit_points_gt_50 == <<" ">> \o S_hit_points \o <<" ", ">", " ", "5", "0", " ">>
C_name_ne_Mew == S_name \o <<"!", "=", "M", "e", "w">>
C_attack_gt_abc == S_attack \o <<">", "a", "b", "c">>
C_ghost == <<"g", "h", "o", "s", "t">> \o <<"=", "=", "5">>
C_invalid == <<"i", "n", "v", "a", "l", "i", "d">>

Rule(url, reason, match) == [url |-> url, reason |-> reason, match |-> match]

R_legendary == Rule("http://a", "legendary pokemon", <<C_legendary>>)
R_powerful ==
    Rule("http://b", "high attack pokemon",
         <<C_attack_gt_100, C_hit_points_gt_50>>)
R_default == Rule("http://c", "default catch-all", <<>>)
R_not_mew == Rule("http://d", "anything but Mew", <<C_name_ne_Mew>>)
R_ghost == Rule("http://e", "unknown field", <<C_ghost, C_invalid>>)
\* a literal that is no integer, compared with `>` to an integer field
R_typo == Rule("http://f", "mistyped literal", <<C_attack_gt_abc>>)

RuleSet == {R_legendary, R_powerful, R_default, R_not_mew, R_ghost, R_typo}

\* Longest rule list applied.
MaxRules == 2

RECURSIVE RuleLists(_)
RuleLists(n) ==
    IF n = 0 THEN {<<>>}
    ELSE LET shorter == RuleLists(n - 1)
         IN shorter \cup {Append(l, r) : l \in shorter, r \in RuleSet}

InitRules ==
    /\ InitCommon
    /\ app_state = [secret |-> None, config |-> NoConfig, http_client |-> None]

\* choose the entity and the rule list
ChooseRules ==
    /\ arg = NoArg
    /\ \E e \in Entities, l \in RuleLists(MaxRules) :
          arg' = [f |-> "find_matching_rule", pokemon |-> e, rules |-> l]
    /\ UNCHANGED <<result, app_state, stats, lock, pc, request, local, call,
                   response, events, clock, lastCall, lastUrl, tally,
                   evicted, started>>

\* result = find_matching_rule(pokemon, rules)
ApplyFindMatchingRule ==
    /\ arg # NoArg
    /\ ~result.done
    /\ result' = [done |-> TRUE,
                  ret |-> find_matching_rule(arg.pokemon, arg.rules)]
    /\ UNCHANGED <<arg, app_state, stats, lock, pc, request, local, call,
                   response, events, clock, lastCall, lastUrl, tally,
                   evicted, started>>

NextRules == ChooseRules \/ ApplyFindMatchingRule

SpecRules == InitRules /\ [][NextRules]_vars

(***************************************************************************)
(* Spec: requests to POST /stream handled by concurrent tasks.  A task     *)
(* runs from one await to the next in a single step.                       *)
(***************************************************************************)
\* Requests received in a run.
MaxRequests == 1

\* tests/conftest.py sample rules (without a catch-all), and a
\* configuration whose first rule compares an integer field with a word
Cfg_sample == ProxyConfig(<<R_legendary, R_powerful>>)
Cfg_typo == ProxyConfig(<<R_typo, R_legendary>>)
\* a rule followed by a catch-all: an entity can satisfy both
Cfg_catch_all == ProxyConfig(<<R_powerful, R_default>>)

Configs == {NoConfig, Cfg_sample, Cfg_typo, Cfg_catch_all}

\* app_state as the lifespan, or a test fixture, leaves it
Init ==
    /\ InitCommon
    /\ app_state \in [secret : {None, SECRET}, config : Configs,
                      http_client : {None, "AsyncClient"}]

BaseHeaders ==
    {<<H_host, "testserver">>, <<H_content_type, "application/x-protobuf">>,
     <<H_x_trace, "abc">>}

\* the Content-Length a client declares: one within the maximum, one
\* beyond it, one that is no number
CL_max == Some(<<"8">>)
CL_over == Some(<<"9", "9">>)
CL_word == Some(<<"1", "x">>)

\* the signature a client presents: the digest of the body under the
\* secret, the digest under another secret, an empty one
Signed(body) == Some(hexdigest(SECRET, body))
Forged(body) == Some(hexdigest(Secrets[2], body))
Blank == Some(<<>>)

\* the requests clients send: <<body, Content-Length, X-Grd-Signature>>
Requests ==
    {<<B_mew, Absent, Signed(B_mew)>>,
     <<B_drag, CL_max, Signed(B_drag)>>,
     <<B_pika, Absent, Signed(B_pika)>>,
     <<B_noname, CL_word, Signed(B_noname)>>,
     <<B_garbage, Absent, Signed(B_garbage)>>,
     <<B_empty, Absent, Signed(B_empty)>>,
     <<B_big, CL_max, Signed(B_big)>>,
     <<B_mew, CL_over, Signed(B_mew)>>,
     <<B_mew, Absent, Absent>>,
     <<B_mew, CL_max, Blank>>,
     <<B_mew, Absent, Forged(B_mew)>>,
     <<B_pika, CL_word, Signed(B_mew)>>,
     <<B_big, CL_over, Absent>>,
     <<B_empty, Absent, Forged(B_empty)>>,
     <<B_big, Absent, Forged(B_big)>>,
     <<B_big, CL_max, Absent>>,
     <<B_empty, CL_over, Signed(B_empty)>>}

WithHeader(headers, name, value) ==
    IF value.present THEN DictSet(headers, name, value.v) ELSE headers

Receive(t) ==
    /\ started < MaxRequests
    /\ FirstFree(t)
    /\ started' = started + 1
    /\ \E r \in Requests :
          request' = [request EXCEPT ![t] =
              [headers |-> WithHeader(WithHeader(BaseHeaders,
                               H_content_length, r[2]),
                               H_x_grd_signature, r[3]),
               body |-> r[1]]]
    /\ local' = [local EXCEPT ![t] = NoLocal]
    /\ response' = [response EXCEPT ![t] = NoResponse]
    /\ events' = [events EXCEPT ![t] = <<>>]
    /\ pc' = [pc EXCEPT ![t] = "validate"]
    /\ UNCHANGED <<arg, result, app_state, stats, lock, call, clock,
                   lastCall, lastUrl, tally, evicted>>

\* the handler ends by raising exc: the answer carries its status
Raised(t, exc, evs, loc) ==
    /\ response' = [response EXCEPT ![t] =
                      [status_code |-> exc.status_code,
                       content |-> exc.detail, headers |-> {}]]
    /\ events' = [events EXCEPT ![t] = @ \o evs]
    /\ local' = [local EXCEPT ![t] = loc]
    /\ pc' = [pc EXCEPT ![t] = "done"]
    /\ UNCHANGED <<arg, result, app_state, stats, lock, request, call,
                   clock, lastCall, lastUrl, tally, evicted, started>>

\* stream.py lines 48-65, up to `await request.body()`
Validate(t) ==
    /\ pc[t] = "validate"
    /\ LET exc == validate_declared(request[t].headers)
       IN IF exc.type # None
          THEN Raised(t, exc, <<>>, local[t])
          ELSE /\ pc' = [pc EXCEPT ![t] = "read_body"]
               /\ UNCHANGED <<arg, result, app_state, stats, lock, request,
                              local, call, response, events, clock,
                              lastCall, lastUrl, tally, evicted, started>>

\* the task calls record_request(frame) and returns to `ret` afterwards
Record(t, frame, evs, loc) ==
    /\ call' = [call EXCEPT ![t] = frame]
    /\ local' = [local EXCEPT ![t] = [loc EXCEPT !.calls = Append(@, frame)]]
    /\ events' = [events EXCEPT ![t] = @ \o evs \o <<"record_request">>]
    /\ pc' = [pc EXCEPT ![t] = "rr_acquire"]
    /\ UNCHANGED <<arg, result, app_state, stats, lock, request, response,
                   clock, lastCall, lastUrl, tally, evicted, started>>

\* what ran for a request once its body is being decoded, and once the rule
\* engine is reached
Decoding == <<"validate_signature", "decoder">>
Engaged == <<"validate_signature", "decoder", "rule_engine">>

\* stream lines 192-214, the rule engine having returned `rule`
AfterMatch(t, body, loc, rule) ==
    IF rule = NoRule
    THEN Record(t, UnmatchedFrame(body, "respond_no_match"),
                Engaged, loc)
    ELSE IF app_state.http_client = None
    THEN Raised(t, HTTPException(500, "Internal server error"),
                Engaged,
                [loc EXCEPT !.matched_rule = rule])
    ELSE /\ local' = [local EXCEPT ![t] =
                        [loc EXCEPT !.matched_rule = rule,
                                    !.outgoing_bytes = JsonLen(loc.pokemon)]]
         /\ events' = [events EXCEPT ![t] = @ \o Engaged]
         /\ pc' = [pc EXCEPT ![t] = "forward"]
         /\ UNCHANGED <<arg, result, app_state, stats, lock, request, call,
                        response, clock, lastCall, lastUrl, tally, evicted,
                        started>>

\* stream line 190, on the outcome of match_routing_rule
AfterRouting(t, body, loc, matched) ==
    IF matched.exc.type # None
    THEN Raised(t, matched.exc,
                IF matched.engine THEN Engaged
                ELSE Decoding, loc)
    ELSE AfterMatch(t, body, loc, matched.val)

\* stream lines 189-190, on the outcome of parse_pokemon_protobuf
AfterParse(t, body, loc, parsed) ==
    IF parsed.exc.type # None
    THEN Raised(t, parsed.exc, Decoding, loc)
    ELSE AfterRouting(t, body, [loc EXCEPT !.pokemon = parsed.val],
                      match_routing_rule(parsed.val))

\* validate_request_signature lines 77-80, then stream line 189
AfterValidate(t, body, loc, exc) ==
    IF exc.type # None
    THEN Raised(t, exc, <<"validate_signature">>, loc)
    ELSE AfterParse(t, body, loc, parse_pokemon_protobuf(body))

\* validate_request_signature lines 69-78, on the outcome of the checks of
\* the body read
AfterBody(t, body, loc, exc) ==
    IF exc.type # None
    THEN Raised(t, exc, <<>>, loc)
    ELSE AfterValidate(t, body, loc,
                       check_signature(request[t].headers, body))

\* from the body read to the next await: the rest of
\* validate_request_signature, parse_pokemon_protobuf, match_routing_rule
\* and lines 192-214 of stream
ReadBody(t) ==
    /\ pc[t] = "read_body"
    /\ AfterBody(t, request[t].body,
                 [local[t] EXCEPT !.body = request[t].body],
                 check_body(request[t].body))

DownstreamHeaders ==
    {<<H_content_type, "application/json">>, <<H_connection, "keep-alive">>,
     <<H_transfer_encoding, "chunked">>,
     <<H_x_custom_response, "from-downstream">>}

DownstreamResponse(status_code) ==
    [status_code |-> status_code, content |-> "downstream",
     headers |-> DownstreamHeaders]

DownstreamStatuses == {200, 399, 400, 500, 502}

TransportErrors == {"ReadTimeout", "ConnectError", "InvalidURL"}

\* what `await client.post(...)` comes back with: a response, or an
\* exception
TransportOutcomes ==
    {[exc |-> None, resp |-> DownstreamResponse(s)] :
        s \in DownstreamStatuses}
    \cup {[exc |-> e, resp |-> NoResponse] : e \in TransportErrors}

\* stream lines 216-237: forward_request, then the record_request call
Forward(t) ==
    /\ pc[t] = "forward"
    /\ \E out \in TransportOutcomes, ms \in {0, MaxElapsed} :
          Record(t, Frame(local[t].matched_rule.url, ByteLen(local[t].body),
                          local[t].outgoing_bytes, ms,
                          IsError(out.exc, out.resp), "finish"),
                 <<"transport">>,
                 [local[t] EXCEPT
                    !.sent = OutboundHeaders(request[t].headers,
                                             local[t].matched_rule.reason),
                    !.posted = Append(@, local[t].matched_rule.url),
                    !.error = out.exc,
                    !.downstream_response = out.resp])

\* stream line 200
RespondNoMatch(t) ==
    /\ pc[t] = "respond_no_match"
    /\ response' = [response EXCEPT ![t] =
                      [status_code |-> 200, content |-> NO_MATCH,
                       headers |-> {<<H_content_type, "application/json">>}]]
    /\ pc' = [pc EXCEPT ![t] = "done"]
    /\ UNCHANGED <<arg, result, app_state, stats, lock, request, local,
                   call, events, clock, lastCall, lastUrl, tally, evicted,
                   started>>

\* stream lines 239-248
Finish(t) ==
    /\ pc[t] = "finish"
    /\ IF local[t].error # None
       THEN Raised(t, _map_downstream_error(local[t].error,
                                            local[t].matched_rule.url),
                   <<>>, local[t])
       ELSE LET r == local[t].downstream_response
            IN /\ response' = [response EXCEPT ![t] =
                     [status_code |-> r.status_code, content |-> r.content,
                      headers |-> _filter_response_headers(r.headers)]]
               /\ pc' = [pc EXCEPT ![t] = "done"]
               /\ UNCHANGED <<arg, result, app_state, stats, lock, request,
                              local, call, events, clock, lastCall,
                              lastUrl, tally, evicted, started>>

Next ==
    \E t \in Tasks :
       \/ Receive(t)
       \/ Validate(t)
       \/ ReadBody(t)
       \/ Forward(t)
       \/ record_request(t)
       \/ RespondNoMatch(t)
       \/ Finish(t)

Spec == Init /\ [][Next]_vars

(***************************************************************************)
(* Properties of the StatsCollector (checked under SpecStore).             *)
(***************************************************************************)
\* some task is inside the critical section of record_request
InCritical(t) == pc[t] \in {"rr_lookup", "rr_load", "rr_store", "rr_error",
                           "rr_release"}

\* the step of task t that executes lines 65-72 of record_request
LookupStep(t) == pc[t] = "rr_lookup" /\ pc'[t] = "rr_load"

RECURSIVE SumCounts(_)
SumCounts(s) ==
    IF s = <<>> THEN 0 ELSE Head(s).st.request_count + SumCounts(Tail(s))

\* C1: after any interleaving of record_request calls the collector never
\* holds more than MAX_ENDPOINTS distinct destination identities.
C1_SizeBounded ==
    /\ Len(stats) <= MAX_ENDPOINTS
    /\ Cardinality(KeySet(stats)) = Len(stats)

\* the store is full after more distinct identities than it can hold were
\* recorded (an identity was evicted to stay within the bound)
C1_Witness ==
    /\ Len(stats) = MAX_ENDPOINTS
    /\ evicted.url # None
    /\ \A t \in Tasks : pc[t] = "idle"
    /\ SumCounts(stats) < clock

\* calls on identity d that have written their counters but not returned
InFlight(d) ==
    {t \in Tasks : call[t].url = d /\ pc[t] \in {"rr_error", "rr_release"}}

\* the bytes the calls of the tasks in S carry
RECURSIVE SumIncoming(_)
SumIncoming(S) ==
    IF S = {} THEN 0
    ELSE LET x == CHOOSE x \in S : TRUE
         IN call[x].incoming_bytes + SumIncoming(S \ {x})

RECURSIVE SumOutgoing(_)
SumOutgoing(S) ==
    IF S = {} THEN 0
    ELSE LET x == CHOOSE x \in S : TRUE
         IN call[x].outgoing_bytes + SumOutgoing(S \ {x})

\* C5: concurrent record_request calls on one identity lose no update:
\* once k calls on d have completed since d was inserted, d's request
\* count is k and its byte counters are the sums of the k calls' arguments
\* (a call that has written but not yet returned is counted on top).
C5_NoLostUpdate ==
    \A i \in 1..Len(stats) :
        LET d == stats[i].url
            st == stats[i].st
        IN /\ st.request_count =
                  tally[d].request_count + Cardinality(InFlight(d))
           /\ st.incoming_bytes =
                  tally[d].incoming_bytes + SumIncoming(InFlight(d))
           /\ st.outgoing_bytes =
                  tally[d].outgoing_bytes + SumOutgoing(InFlight(d))
           /\ (InFlight(d) = {} =>
                  /\ st.request_count = tally[d].request_count
                  /\ st.incoming_bytes = tally[d].incoming_bytes
                  /\ st.outgoing_bytes = tally[d].outgoing_bytes)

\* two calls on the same identity overlapped (one waited for the lock the
\* other held) and both have completed
C5_Witness ==
    /\ lock = None
    /\ \E i \in 1..Len(stats) :
          /\ tally[stats[i].url].overlapped
          /\ tally[stats[i].url].request_count >= 2
          /\ stats[i].st.request_count >= 2
          /\ stats[i].st.incoming_bytes > stats[i].st.request_count
          /\ InFlight(stats[i].url) = {}

\* C6: a call with an unseen identity at capacity removes exactly one
\* entry, the one whose most recent call is the oldest; every other entry
\* stays and the size stays MAX_ENDPOINTS.  No other step removes an entry;
\* in particular none is removed below capacity.
C6_Step ==
    LET gone == KeySet(stats) \ KeySet(stats')
    IN /\ (Len(stats) < MAX_ENDPOINTS => gone = {})
       /\ (gone # {} =>
              \E t \in Tasks : /\ LookupStep(t)
                               /\ call[t].url \notin KeySet(stats)
                               /\ Len(stats) = MAX_ENDPOINTS)
       /\ \A t \in Tasks :
              (/\ LookupStep(t)
               /\ call[t].url \notin KeySet(stats)
               /\ Len(stats) = MAX_ENDPOINTS)
              => /\ \E v \in KeySet(stats) :
                       /\ gone = {v}
                       /\ \A w \in KeySet(stats) : lastCall[v] <= lastCall[w]
                 /\ KeySet(stats') = (KeySet(stats) \ gone) \cup {call[t].url}
                 /\ Len(stats') = MAX_ENDPOINTS

C6_EvictsLeastRecentlyTouched == [][C6_Step]_vars

\* an identity was evicted although an identity inserted before it is
\* still stored: the victim was the least recently touched, not the
\* oldest inserted
C6_Witness ==
    /\ evicted.url # None
    /\ Len(stats) = MAX_ENDPOINTS
    /\ \E d \in KeySet(stats) :
          /\ tally[d].inserted < evicted.inserted
          /\ lastCall[d] > evicted.lastCall

\* C7: a call on a stored identity moves it to the last position of the
\* order get_all_stats returns and keeps the relative order of the others;
\* the next insertion at capacity then evicts the least recently touched
\* of the others, never the touched identity.
C7_Step ==
    \A t \in Tasks :
        LookupStep(t) =>
            LET u == call[t].url
            IN /\ (u \in KeySet(stats) =>
                      /\ Keys(stats')[Len(stats')] = u
                      /\ Len(stats') = Len(stats)
                      /\ Keys(SubSeq(stats', 1, Len(stats') - 1))
                             = Keys(SeqFilterOut(stats, u)))
               /\ (u \notin KeySet(stats) /\ Len(stats) = MAX_ENDPOINTS
                   /\ MAX_ENDPOINTS >= 2 =>
                      /\ lastUrl \in KeySet(stats')
                      /\ Keys(SubSeq(stats', 1, Len(stats') - 1))
                             = Keys(Tail(stats))
                      /\ \A w \in KeySet(stats) :
                             lastCall[Head(stats).url] <= lastCall[w])

FullyMatches(e, r) ==
    \A i \in 1..Len(r.match) :
        _evaluate_condition(e, r.match[i]) = Return(TRUE)

\* the indices of the rules of the applied list that fully match
Matching == {i \in 1..Len(arg.rules) : FullyMatches(arg.pokemon, arg.rules[i])}

\* C4: find_matching_rule returns the rule at the lowest index whose
\* conditions all evaluate true, and None exactly when no rule of the list
\* fully matches (the empty list included).
C4_FirstMatchWins ==
    result.done =>
        /\ result.ret.exc = None
        /\ IF Matching = {} THEN result.ret.val = NoRule
           ELSE \E i \in Matching :
                   /\ \A j \in Matching : i <= j
                   /\ result.ret.val = arg.rules[i]

\* some condition of a rule that precedes the first full match (or of any
\* rule, when there is none) raises for the entity
RaisesBeforeMatch ==
    \E i \in 1..Len(arg.rules) :
        /\ \A j \in Matching : i < j
        /\ AllConditions(arg.pokemon, arg.rules[i].match).exc # None

\* C4 (where the code agrees with it): the claim holds of every entity and
\* rule list in which no rule evaluated before the first full match raises.
C4_FirstMatchWinsUnlessRaised ==
    result.done /\ ~RaisesBeforeMatch => C4_FirstMatchWins

\* an entity that satisfies two rules of the list got the earlier one
C4_Witness ==
    /\ result.done
    /\ Cardinality(Matching) >= 2
    /\ result.ret.exc = None
    /\ result.ret.val = arg.rules[1]
    /\ arg.rules[1] # arg.rules[2]

(***************************************************************************)
(* Properties of the request pipeline (checked under Spec).                *)
(***************************************************************************)
Done(t) == pc[t] = "done"

Invoked(t, e) == \E i \in 1..Len(events[t]) : events[t][i] = e

Completed(t) == Cardinality({i \in 1..Len(events[t]) : events[t][i] = "recorded"})

\* the request of task t went through authentication and decoding
Decoded(t) == local[t].pokemon # DefaultPokemon

\* the rule engine returned a rule for the request of task t
Matched(t) == local[t].matched_rule # NoRule

\* the header of the request of task t stored under the lower-case name
Presented(t, name) ==
    IF \E p \in request[t].headers : p[1] = name
    THEN Some((CHOOSE p \in request[t].headers : p[1] = name)[2])
    ELSE Absent

\* the signature of the request of task t is missing, or is not the digest
\* of its body under the configured secret
AuthFails(t) ==
    \/ ~Truthy(Presented(t, H_x_grd_signature))
    \/ /\ app_state.secret # None
       /\ Presented(t, H_x_grd_signature).v
             # hexdigest(app_state.secret, request[t].body)

\* nothing behind the authenticator ran for the request of task t
ShortCircuited(t) ==
    /\ ~Invoked(t, "decoder")
    /\ ~Invoked(t, "rule_engine")
    /\ ~Invoked(t, "transport")
    /\ ~Invoked(t, "record_request")
    /\ local[t].calls = <<>>

\* C2: every request that reaches the Matched state produces exactly one
\* record_request call keyed by the matched rule's URL before it ends,
\* whether dispatch succeeds, the transport raises, or the request is
\* rejected after matching; never zero calls and never two.
C2_MatchedRecordedOnce ==
    \A t \in Tasks :
        Matched(t) =>
            /\ Len(local[t].calls) <= 1
            /\ Done(t) =>
                  /\ Len(local[t].calls) = 1
                  /\ local[t].calls[1].url = local[t].matched_rule.url
                  /\ Completed(t) = 1

\* a matched request that was handed to the transport is recorded exactly
\* once under the rule's URL, whatever the transport did
DispatchedRecordedOnce ==
    \A t \in Tasks :
        Matched(t) /\ app_state.http_client # None =>
            /\ Len(local[t].calls) <= 1
            /\ Done(t) =>
                  /\ Len(local[t].calls) = 1
                  /\ local[t].calls[1].url = local[t].matched_rule.url
                  /\ Completed(t) = 1

\* a matched request ended, its transport having raised, with one record
DispatchedRecordedOnceReached ==
    \E t \in Tasks :
        /\ Done(t)
        /\ Matched(t)
        /\ local[t].error # None
        /\ Len(local[t].calls) = 1

\* C3: a request that fails authentication (missing signature, or
\* signature not equal to the HMAC of its body) ends with 401, and the
\* decoder, the rule engine and the transport are never invoked for it and
\* no record_request call is made.
C3_AuthFailureIs401 ==
    \A t \in Tasks :
        pc[t] # "idle" /\ AuthFails(t) =>
            /\ ShortCircuited(t)
            /\ Done(t) => response[t].status_code = 401

\* the status validate_request_signature ends a request with that fails
\* authentication: the checks that come before the one that fails win
AuthFailureStatus(t) ==
    IF /\ Truthy(Presented(t, H_content_length))
       /\ DeclaredTooLarge(Presented(t, H_content_length).v)
    THEN 413
    ELSE IF ~Truthy(Presented(t, H_x_grd_signature)) THEN 401
    ELSE IF ByteLen(request[t].body) > MAX_BODY_SIZE THEN 413
    ELSE IF request[t].body = <<>> THEN 400
    ELSE 401

\* C3 (amended): a request that fails authentication ends with 401 unless
\* an earlier check rejects it first (a declared length over the maximum:
\* 413; with a signature presented, a body over the maximum: 413, or an
\* empty body: 400); in every case the decoder, the rule engine and the
\* transport are never invoked for it and no record_request call is made.
C3_AuthFailureShortCircuits ==
    \A t \in Tasks :
        pc[t] # "idle" /\ AuthFails(t) =>
            /\ ShortCircuited(t)
            /\ Done(t) => response[t].status_code = AuthFailureStatus(t)

\* a request with a forged signature over a well-formed body ended with 401
C3_Witness ==
    \E t \in Tasks :
        /\ Done(t)
        /\ AuthFails(t)
        /\ Truthy(Presented(t, H_x_grd_signature))
        /\ request[t].body = B_mew
        /\ response[t].status_code = 401
        /\ response[t].content = "Invalid signature"

\* C8: a transport timeout yields 504; any other transport connectivity
\* failure yields 502; any other exception from the transport yields 502;
\* a timeout is never classified as 502.
C8_FailureClassification ==
    \A t \in Tasks :
        Done(t) /\ local[t].error # None =>
            /\ local[t].error = "ReadTimeout" =>
                  response[t].status_code = 504
            /\ local[t].error = "ConnectError" =>
                  response[t].status_code = 502
            /\ local[t].error = "InvalidURL" =>
                  response[t].status_code = 502
            /\ response[t].status_code \in {502, 504}

\* a request whose transport timed out ended with 504
C8_Witness ==
    \E t \in Tasks :
        /\ Done(t)
        /\ local[t].error = "ReadTimeout"
        /\ response[t].status_code = 504

\* C9: for a matched request, the is_error flag passed to record_request is
\* true if and only if the transport raised or the downstream status is
\* >= 400; a response with status < 400 is recorded with is_error false.
C9_IsErrorFlag ==
    \A t \in Tasks :
        Matched(t) /\ local[t].calls # <<>> =>
            LET failed == local[t].error \in TransportErrors
                status == local[t].downstream_response.status_code
            IN /\ local[t].calls[1].is_error <=> (failed \/ status >= 400)
               /\ ~failed /\ status < 400 => ~local[t].calls[1].is_error

\* a downstream response with status exactly 400 was recorded as an error
C9_Witness ==
    \E t \in Tasks :
        /\ Done(t)
        /\ Matched(t)
        /\ local[t].error = None
        /\ local[t].downstream_response.status_code = 400
        /\ local[t].calls[1].is_error

\* no rule of the loaded configuration fully matches the entity of task t
NoRuleMatches(t) ==
    /\ app_state.config.loaded
    /\ \A i \in 1..Len(app_state.config.rules) :
          ~FullyMatches(local[t].pokemon, app_state.config.rules[i])

\* the outcome the no-match branch is to have
NoMatchOutcome(t) ==
    /\ ~Invoked(t, "transport")
    /\ Len(local[t].calls) <= 1
    /\ Done(t) =>
          /\ response[t].status_code = 200
          /\ response[t].content = NO_MATCH
          /\ Len(local[t].calls) = 1
          /\ Completed(t) = 1
          /\ local[t].calls[1].url = "__unmatched__"
          /\ local[t].calls[1].outgoing_bytes = 0
          /\ local[t].calls[1].is_error = FALSE

\* C10: when no rule matches an authenticated, decoded entity, the request
\* ends with 200 and the fixed no_match payload, the transport is never
\* invoked, and exactly one record_request call is made, keyed by
\* "__unmatched__", with outgoing_bytes = 0 and is_error = false.
C10_NoMatchAnswered ==
    \A t \in Tasks : Decoded(t) /\ NoRuleMatches(t) => NoMatchOutcome(t)

\* the same, for the requests the rule engine returned None for
NoMatchAnsweredUnlessRaised ==
    \A t \in Tasks :
        Decoded(t) /\ Invoked(t, "rule_engine") /\ ~Matched(t)
        /\ find_matching_rule(local[t].pokemon, app_state.config.rules).exc
             = None
        => NoMatchOutcome(t)

\* a request no rule matched ended with the no_match payload
NoMatchAnsweredReached ==
    \E t \in Tasks :
        /\ Done(t)
        /\ Decoded(t)
        /\ NoRuleMatches(t)
        /\ response[t].content = NO_MATCH

\* the decoder was reached for the request of task t and its body is
\* malformed, or decodes to an entity without a name
DecodeFailure(t) ==
    /\ Invoked(t, "decoder")
    /\ \/ ParseFromString(request[t].body).exc # None
       \/ ParseFromString(request[t].body).val.name = <<>>

\* C11: a decode failure (malformed body, or a decoded entity with an empty
\* name) is terminal for the request: it ends with 400, the rule engine
\* and the transport are never invoked for it, and no record_request call
\* is made.
C11_DecodeFailureTerminal ==
    \A t \in Tasks :
        DecodeFailure(t) =>
            /\ ~Invoked(t, "rule_engine")
            /\ ~Invoked(t, "transport")
            /\ ~Invoked(t, "record_request")
            /\ local[t].calls = <<>>
            /\ pc[t] = "done"
            /\ response[t].status_code = 400

\* an authenticated body that decodes to an entity without a name ended
\* with 400
C11_Witness ==
    \E t \in Tasks :
        /\ Done(t)
        /\ DecodeFailure(t)
        /\ request[t].body = B_noname
        /\ response[t].status_code = 400
        /\ response[t].content = "Pokemon missing name field"

\* the request of task t has an empty body and presents a signature
EmptySigned(t) ==
    /\ pc[t] # "idle"
    /\ request[t].body = <<>>
    /\ Truthy(Presented(t, H_x_grd_signature))

\* C12: a request with an empty body that presents a signature (the
\* correct digest of the empty body or not) is rejected with 400, never
\* with 401, and validate_signature is not consulted for it.
C12_EmptyBodyIs400 ==
    \A t \in Tasks :
        EmptySigned(t) =>
            /\ ~Invoked(t, "validate_signature")
            /\ Done(t) => response[t].status_code = 400

\* C12 (amended): such a request is rejected with 400 unless an earlier
\* check rejects it first (a declared length over the maximum: 413; no
\* secret configured: 500); it is never rejected with 401, and
\* validate_signature is not consulted for it.
C12_EmptyBodyBeforeSignature ==
    \A t \in Tasks :
        EmptySigned(t) =>
            /\ ~Invoked(t, "validate_signature")
            /\ Done(t) =>
                  response[t].status_code =
                     IF /\ Truthy(Presented(t, H_content_length))
                        /\ DeclaredTooLarge(Presented(t, H_content_length).v)
                     THEN 413
                     ELSE IF app_state.secret = None THEN 500
                     ELSE 400

\* an empty body under a forged signature ended with 400
C12_Witness ==
    \E t \in Tasks :
        /\ Done(t)
        /\ EmptySigned(t)
        /\ Presented(t, H_x_grd_signature) = Forged(B_empty)
        /\ response[t].status_code = 400
        /\ response[t].content = "Empty request body"

\* the declared length of the request of task t exceeds the maximum
DeclaredOver(t) ==
    /\ Truthy(Presented(t, H_content_length))
    /\ DeclaredTooLarge(Presented(t, H_content_length).v)

\* the body of the request of task t exceeds the maximum
ActualOver(t) == ByteLen(request[t].body) > MAX_BODY_SIZE

\* nothing that works on the body ran for the request of task t
BodyUntouched(t) ==
    /\ ~Invoked(t, "validate_signature")
    /\ ~Invoked(t, "decoder")
    /\ ~Invoked(t, "rule_engine")
    /\ ~Invoked(t, "transport")
    /\ ~Invoked(t, "record_request")

\* C13: a request is rejected with 413 whenever its declared length or its
\* actual body length exceeds the maximum (a body of exactly the maximum is
\* accepted), also when the declared length understates an oversized body,
\* and no oversized body reaches signature verification, decoding or
\* dispatch.
C13_OversizeIs413 ==
    \A t \in Tasks :
        pc[t] # "idle" =>
            /\ DeclaredOver(t) \/ ActualOver(t) =>
                  /\ BodyUntouched(t)
                  /\ Done(t) => response[t].status_code = 413
            /\ ~DeclaredOver(t) /\ ~ActualOver(t) =>
                  response[t].status_code # 413

\* C13 (amended): a declared length over the maximum is always rejected
\* with 413; an oversized body whose declared length is not over the
\* maximum is rejected with 413 unless the signature is missing (401) or
\* no secret is configured (500); a request within the maximum is never
\* rejected with 413; and no oversized body reaches signature
\* verification, decoding or dispatch.
C13_OversizeRejected ==
    \A t \in Tasks :
        pc[t] # "idle" =>
            /\ DeclaredOver(t) \/ ActualOver(t) =>
                  /\ BodyUntouched(t)
                  /\ Done(t) =>
                        response[t].status_code =
                           IF DeclaredOver(t) THEN 413
                           ELSE IF ~Truthy(Presented(t, H_x_grd_signature))
                           THEN 401
                           ELSE IF app_state.secret = None THEN 500
                           ELSE 413
            /\ ~DeclaredOver(t) /\ ~ActualOver(t) =>
                  response[t].status_code # 413

\* an oversized body whose declared length understates it was rejected with
\* 413 after the body was read
C13_Witness ==
    \E t \in Tasks :
        /\ Done(t)
        /\ ActualOver(t)
        /\ ~DeclaredOver(t)
        /\ Presented(t, H_content_length) = CL_max
        /\ local[t].body = request[t].body
        /\ response[t].status_code = 413

\* a body of exactly the maximum was decoded
ExactMaximumAccepted ==
    \E t \in Tasks :
        /\ ByteLen(request[t].body) = MAX_BODY_SIZE
        /\ Invoked(t, "decoder")

\* a request is being handled by task t with no secret configured
NoSecret(t) == pc[t] # "idle" /\ app_state.secret = None

\* C14: if no secret is configured when a request arrives, the request is
\* rejected with 500, not with a client error, and it is never
\* authenticated, decoded or forwarded.
C14_NoSecretIs500 ==
    \A t \in Tasks :
        NoSecret(t) =>
            /\ BodyUntouched(t)
            /\ Done(t) => response[t].status_code = 500

\* C14 (amended): with no secret configured a request is never
\* authenticated, decoded or forwarded, and it is rejected with 500 unless
\* an earlier check rejects it first (a declared length over the maximum:
\* 413; a missing signature: 401).
C14_NoSecretRejected ==
    \A t \in Tasks :
        NoSecret(t) =>
            /\ BodyUntouched(t)
            /\ pc[t] # "read_body"
            /\ Done(t) =>
                  response[t].status_code =
                     IF DeclaredOver(t) THEN 413
                     ELSE IF ~Truthy(Presented(t, H_x_grd_signature))
                     THEN 401
                     ELSE 500

\* a correctly formed, signed request ended with 500 for want of a secret
C14_Witness ==
    \E t \in Tasks :
        /\ Done(t)
        /\ NoSecret(t)
        /\ request[t].body = B_mew
        /\ Truthy(Presented(t, H_x_grd_signature))
        /\ response[t].status_code = 500
        /\ response[t].content = "Internal server error"

(***************************************************************************)
(* SpecSig: validate_signature applied to a body, a secret and a           *)
(* presented signature.                                                    *)
(***************************************************************************)
\* every digest the secrets give the bodies
Digests == {hexdigest(s, b) : s \in Range(Secrets), b \in Bodies}

\* strings that are not the digest d: upper-cased, truncated, extended,
\* non-hex, empty, non-ASCII, padded
Malformed(d) ==
    {Upper(d), SubSeq(d, 1, 1), d \o <<"0">>, <<"z", "z">>, <<>>,
     <<"e-acute", d[2]>>, <<" ">> \o d}

\* choose the body, the secret and the signature presented
ChooseSignature ==
    /\ arg = NoArg
    /\ \E b \in Bodies, s \in Range(Secrets) :
          \E sig \in Digests \cup Malformed(hexdigest(s, b)) :
             arg' = [f |-> "validate_signature", body |-> b,
                     signature |-> sig, secret |-> s]
    /\ UNCHANGED <<result, app_state, stats, lock, pc, request, local, call,
                   response, events, clock, lastCall, lastUrl, tally,
                   evicted, started>>

\* result = validate_signature(body, signature, secret)
ApplyValidateSignature ==
    /\ arg # NoArg
    /\ ~result.done
    /\ result' = [done |-> TRUE,
                  ret |-> validate_signature(arg.body, arg.signature,
                                             arg.secret)]
    /\ UNCHANGED <<arg, app_state, stats, lock, pc, request, local, call,
                   response, events, clock, lastCall, lastUrl, tally,
                   evicted, started>>

NextSig == ChooseSignature \/ ApplyValidateSignature

SpecSig == InitRules /\ [][NextSig]_vars

\* C15: a signature is accepted when it is the keyed digest of exactly the
\* received body under the configured secret, and rejected when it is the
\* digest of another body or under another secret.
C15_DigestOfBodyAndSecret ==
    result.done =>
        /\ arg.signature = hexdigest(arg.secret, arg.body) => result.ret
        /\ \A s \in Range(Secrets), b \in Bodies :
              /\ <<s, b>> # <<arg.secret, arg.body>>
              /\ arg.signature = hexdigest(s, b)
              => ~result.ret

\* the digest of the same body under the other secret was rejected
C15_Witness ==
    /\ result.done
    /\ arg.secret = Secrets[1]
    /\ arg.body = B_mew
    /\ arg.signature = hexdigest(Secrets[2], B_mew)
    /\ ~result.ret

\* the digest of the body under the secret was accepted
C15_Accepted ==
    /\ result.done
    /\ arg.signature = hexdigest(arg.secret, arg.body)
    /\ result.ret

\* C16: every presented signature that is not exactly the lower-case hex
\* digest (upper-cased, non-hex, of another length, empty, non-ASCII,
\* padded, or the digest of something else) is rejected with the same
\* result, False; the call returns a value whatever the string.
C16_MalformedRejected ==
    result.done =>
        /\ result.ret \in BOOLEAN
        /\ arg.signature # hexdigest(arg.secret, arg.body)
              => result.ret = FALSE

\* the upper-cased digest was rejected
C16_Witness ==
    /\ result.done
    /\ arg.signature = Upper(hexdigest(arg.secret, arg.body))
    /\ arg.signature # hexdigest(arg.secret, arg.body)
    /\ result.ret = FALSE

\* a signature with a non-ASCII character was rejected
C16_NonAsciiRejected ==
    /\ result.done
    /\ \E i \in 1..Len(arg.signature) : arg.signature[i] \in NonAscii
    /\ result.ret = FALSE

(***************************************************************************)
(* Catch-all rules and AND semantics (checked under SpecRules).            *)
(***************************************************************************)
\* the catch-all rules of the applied list none of whose predecessors fully
\* matches
FirstCatchAll ==
    {i \in 1..Len(arg.rules) :
        /\ arg.rules[i].match = <<>>
        /\ \A j \in 1..(i - 1) : ~FullyMatches(arg.pokemon, arg.rules[j])}

\* C17: a rule with an empty condition list matches every entity: alone in
\* the list it is returned, and in any list it is returned whenever no
\* earlier rule fully matches.
C17_CatchAllReturned ==
    result.done =>
        \A i \in FirstCatchAll : result.ret = Return(arg.rules[i])

\* C17 (where the code agrees with it): a catch-all none of whose
\* predecessors fully matches is returned unless a rule evaluated before
\* it raises.
CatchAllReturnedUnlessRaised ==
    result.done /\ ~RaisesBeforeMatch => C17_CatchAllReturned

\* a catch-all that followed a rule that did not match was returned
CatchAllReturnedReached ==
    /\ result.done
    /\ 2 \in FirstCatchAll
    /\ arg.rules[1].match # <<>>
    /\ result.ret = Return(arg.rules[2])

\* the conditions of the rule that evaluate false for the entity
FalseConditions(e, r) ==
    {k \in 1..Len(r.match) : _evaluate_condition(e, r.match[k]) = Return(FALSE)}

\* C18: a rule matches an entity exactly when every one of its conditions
\* evaluates true; a rule with a false condition is never the one returned,
\* however many of its other conditions are true, and a returned rule has
\* all its conditions true.
C18_AndSemantics ==
    result.done =>
        /\ \A i \in 1..Len(arg.rules) :
              /\ AllConditions(arg.pokemon, arg.rules[i].match) = Return(TRUE)
                    <=> FullyMatches(arg.pokemon, arg.rules[i])
              /\ FalseConditions(arg.pokemon, arg.rules[i]) # {}
                    => result.ret # Return(arg.rules[i])
        /\ result.ret.exc = None /\ result.ret.val # NoRule
              => FullyMatches(arg.pokemon, result.ret.val)

\* a rule with one true and one false condition was passed over
C18_Witness ==
    /\ result.done
    /\ arg.pokemon = Snorlax
    /\ Len(arg.rules) >= 1
    /\ arg.rules[1] = R_powerful
    /\ Cardinality(FalseConditions(Snorlax, R_powerful)) = 1
    /\ Len(R_powerful.match) = 2
    /\ result.ret.exc = None
    /\ result.ret # Return(R_powerful)

(***************************************************************************)
(* SpecCond: _evaluate_condition applied to an entity and a condition      *)
(* string.                                                                 *)
(***************************************************************************)
\* names that are no attribute of a Pokemon message
UnknownNames ==
    {<<"g", "h", "o", "s", "t">>, <<"A", "t", "t", "a", "c", "k">>,
     <<"u", "n", "k", "n", "o", "w", "n", "_", "f", "i", "e", "l", "d">>}

\* names of an integer, a string and a Boolean field, and of a method
KnownNames == {S_attack, S_name, S_legendary, S_ByteSize}

Operators == {<<"=", "=">>, <<"!", "=">>, <<">">>, <<"<">>}

L_True == <<"T", "r", "u", "e">>
L_YES == <<"Y", "E", "S">>
L_false == <<"f", "a", "l", "s", "e">>
L_0 == <<"0">>

Literals ==
    {<<"5">>, <<"a", "b", "c">>, S_true, <<"M", "e", "w">>, L_True, L_YES,
     S_yes, S_1, L_false, L_0}

\* strings the pattern does not match: no operator, empty, blank, no name,
\* no value, a single `=`, a name that is no word
IllFormed ==
    {C_invalid, <<>>, <<" ">>, <<"=", "=", "5">>, S_attack \o <<"=", "=">>,
     S_attack \o <<">">>, S_attack, S_attack \o <<" ", "=", " ", "5">>,
     S_attack \o <<"=", "5">>, S_attack \o <<"=", ">", "5">>,
     <<"a", "t", " ", "t", "a", "c", "k", "=", "=", "5">>,
     <<"-">> \o S_attack \o <<"=", "=", "5">>}

\* choose the entity and the condition: name, operator and literal, bare or
\* with whitespace around each, or a string the pattern does not match
ChooseCondition ==
    /\ arg = NoArg
    /\ \E e \in Entities :
          \/ \E n \in KnownNames \cup UnknownNames, o \in Operators,
                l \in Literals, pad \in {<<>>, <<" ">>} :
                arg' = [f |-> "_evaluate_condition", pokemon |-> e,
                        condition |-> pad \o n \o pad \o o \o pad \o l
                                      \o pad,
                        name |-> n, operator |-> o, literal |-> l]
          \/ \E c \in IllFormed :
                arg' = [f |-> "_evaluate_condition", pokemon |-> e,
                        condition |-> c,
                        name |-> <<>>, operator |-> <<>>, literal |-> <<>>]
    /\ UNCHANGED <<result, app_state, stats, lock, pc, request, local, call,
                   response, events, clock, lastCall, lastUrl, tally,
                   evicted, started>>

\* result = _evaluate_condition(pokemon, condition)
ApplyEvaluateCondition ==
    /\ arg # NoArg
    /\ ~result.done
    /\ result' = [done |-> TRUE,
                  ret |-> _evaluate_condition(arg.pokemon, arg.condition)]
    /\ UNCHANGED <<arg, app_state, stats, lock, pc, request, local, call,
                   response, events, clock, lastCall, lastUrl, tally,
                   evicted, started>>

NextCond == ChooseCondition \/ ApplyEvaluateCondition

SpecCond == InitRules /\ [][NextCond]_vars

\* C19: a condition whose field name is not an attribute of the entity
\* evaluates to False, without raising, for every entity, each of the four
\* operators and every literal.
C19_UnknownFieldIsFalse ==
    result.done /\ arg.name \in UnknownNames => result.ret = Return(FALSE)

\* an unknown name compared by `>` with a literal that is no integer was
\* False
C19_Witness ==
    /\ result.done
    /\ arg.name \in UnknownNames
    /\ arg.operator = <<">">>
    /\ arg.literal = <<"a", "b", "c">>
    /\ result.ret = Return(FALSE)

\* an unknown name compared by `!=` was False
UnknownFieldNotEqualReached ==
    /\ result.done
    /\ arg.name \in UnknownNames
    /\ arg.operator = <<"!", "=">>
    /\ result.ret = Return(FALSE)

\* C20: a condition string that does not match `name operator value`
\* evaluates to False for every entity without raising, and a rule
\* containing it does not match: alone or after a true condition, the
\* rule is not returned.
C20_IllFormedIsFalse ==
    result.done /\ arg.condition \in IllFormed =>
        /\ result.ret = Return(FALSE)
        /\ \A before \in {<<>>, <<C_name_ne_Mew \o <<"t", "w", "o">>>>} :
              LET r == Rule("http://a", "ill-formed",
                            before \o <<arg.condition>>)
              IN find_matching_rule(arg.pokemon, <<r>>) = Return(NoRule)

\* a condition with a name and an operator but no value was False
C20_Witness ==
    /\ result.done
    /\ arg.condition = S_attack \o <<"=", "=">>
    /\ result.ret = Return(FALSE)

(***************************************************************************)
(* Literals and field types (checked under SpecCond).                      *)
(***************************************************************************)
\* the literals of the model int() rejects
WordLiterals == {<<"a", "b", "c">>, S_true, <<"M", "e", "w">>}

\* the condition applied is on the integer field attack with a literal
\* that is no integer
IntFieldWordLiteral ==
    /\ result.done
    /\ arg.name = S_attack
    /\ arg.literal \in WordLiterals

\* C21: a condition on an integer field whose literal is not a valid
\* integer is False, without raising, for each of ==, !=, > and <.
C21_MalformedIntLiteralIsFalse ==
    IntFieldWordLiteral => result.ret = Return(FALSE)

\* C21 (where the code agrees with it): with the operator == the condition
\* is False without raising.
MalformedIntLiteralEquality ==
    IntFieldWordLiteral /\ arg.operator = <<"=", "=">>
        => result.ret = Return(FALSE)

\* what the code does with the other operators: != is True, > and < raise
MalformedIntLiteralOutcome ==
    IntFieldWordLiteral =>
        result.ret = CASE arg.operator = <<"=", "=">> -> Return(FALSE)
                       [] arg.operator = <<"!", "=">> -> Return(TRUE)
                       [] OTHER -> Raise("TypeError")

\* attack>abc raised
MalformedIntLiteralRaised ==
    /\ IntFieldWordLiteral
    /\ arg.operator = <<">">>
    /\ result.ret = Raise("TypeError")

\* the condition applied orders a string or a Boolean field
OrderedNonNumeric ==
    /\ result.done
    /\ arg.name \in {S_name, S_legendary}
    /\ arg.operator \in {<<">">>, <<"<">>}

\* C22: > or < on a string field or a Boolean field is always False and
\* never raises, for every entity and every literal.
C22_NonNumericOrderIsFalse ==
    OrderedNonNumeric => result.ret = Return(FALSE)

\* the literal as a Boolean field reads it
TruthyToken(l) == Lower(l) \in {S_true, S_1, S_yes}

\* C22 (amended): > or < on a string field or a Boolean field never
\* raises; the result is the order within the field's own type: strings
\* by code point against the raw literal, Booleans with False below True
\* against the literal read as a truthy token.
C22_NonNumericOrderNeverRaises ==
    OrderedNonNumeric =>
        /\ result.ret.exc = None
        /\ result.ret.val =
              IF arg.name = S_name
              THEN IF arg.operator = <<">">>
                   THEN StrLess(arg.literal, arg.pokemon.name)
                   ELSE StrLess(arg.pokemon.name, arg.literal)
              ELSE IF arg.operator = <<">">>
                   THEN arg.pokemon.legendary /\ ~TruthyToken(arg.literal)
                   ELSE ~arg.pokemon.legendary /\ TruthyToken(arg.literal)

\* name>Mew was True of an entity whose name sorts after it
C22_Witness ==
    /\ OrderedNonNumeric
    /\ arg.name = S_name
    /\ arg.operator = <<">">>
    /\ arg.literal = <<"M", "e", "w">>
    /\ arg.pokemon = Pikachu
    /\ result.ret = Return(TRUE)

\* legendary>abc was True of a legendary entity
BooleanOrderReached ==
    /\ OrderedNonNumeric
    /\ arg.name = S_legendary
    /\ arg.operator = <<">">>
    /\ arg.pokemon.legendary
    /\ result.ret = Return(TRUE)

(***************************************************************************)
(* SpecHeaders: the two header filters applied to a dict of headers whose  *)
(* names are spelt in any letter case.                                     *)
(***************************************************************************)
\* Most headers in a dict.
MaxHeaders == 3

\* the headers a dict is made of; a name occurs once in each spelling
HeaderPool ==
    {<<H_X_Grd_Signature, "a1">>, <<H_x_grd_signature, "b2">>,
     <<H_Content_Type, "application/x-protobuf">>, <<H_content_length, "8">>,
     <<Upper(H_host), "testserver">>, <<H_x_trace, "abc">>,
     <<H_X_Grd_Reason, "client">>, <<Lower(H_X_Grd_Reason), "client">>,
     <<H_connection, "keep-alive">>, <<Upper(H_keep_alive), "timeout=5">>,
     <<H_transfer_encoding, "chunked">>,
     <<Upper(H_content_encoding), "gzip">>, <<Upper(H_te), "trailers">>,
     <<H_trailers, "x-sum">>, <<Upper(H_upgrade), "h2c">>,
     <<H_x_custom_response, "from-downstream">>}

\* the dicts of at most MaxHeaders headers
HeaderDicts == {d \in SUBSET HeaderPool : Cardinality(d) <= MaxHeaders}

\* choose the dict of headers
ChooseHeaders ==
    /\ arg = NoArg
    /\ \E d \in HeaderDicts : arg' = [f |-> "headers", headers |-> d]
    /\ UNCHANGED <<result, app_state, stats, lock, pc, request, local, call,
                   response, events, clock, lastCall, lastUrl, tally,
                   evicted, started>>

\* the headers forward_request sends for the inbound dict (proxy.py 45-48)
ApplyOutboundHeaders ==
    /\ arg # NoArg
    /\ ~result.done
    /\ result' = [done |-> TRUE, f |-> "forward_request",
                  ret |-> OutboundHeaders(arg.headers, "legendary pokemon")]
    /\ UNCHANGED <<arg, app_state, stats, lock, pc, request, local, call,
                   response, events, clock, lastCall, lastUrl, tally,
                   evicted, started>>

\* result = _filter_response_headers(headers)
ApplyFilterResponseHeaders ==
    /\ arg # NoArg
    /\ ~result.done
    /\ result' = [done |-> TRUE, f |-> "_filter_response_headers",
                  ret |-> _filter_response_headers(arg.headers)]
    /\ UNCHANGED <<arg, app_state, stats, lock, pc, request, local, call,
                   response, events, clock, lastCall, lastUrl, tally,
                   evicted, started>>

NextHeaders ==
    ChooseHeaders \/ ApplyOutboundHeaders \/ ApplyFilterResponseHeaders

SpecHeaders == InitRules /\ [][NextHeaders]_vars

Forwarded == result.done /\ result.f = "forward_request"

\* no header sent bears a denied name, whatever its spelling, but the
\* Content-Type set to JSON
DeniedStripped ==
    /\ \A p \in result.ret :
          Lower(p[1]) \in skip_headers
             => p = <<H_Content_Type, "application/json">>
    /\ <<H_Content_Type, "application/json">> \in result.ret

Relayed == result.done /\ result.f = "_filter_response_headers"

\* C25: the headers relayed to the caller never contain connection,
\* keep-alive, transfer-encoding, content-encoding, te, trailers or
\* upgrade, in any letter case; every other downstream header is relayed
\* with its value unchanged.
C25_HopByHopStripped ==
    Relayed =>
        /\ \A p \in result.ret : Lower(p[1]) \notin HOP_BY_HOP_HEADERS
        /\ \A p \in arg.headers :
              Lower(p[1]) \notin HOP_BY_HOP_HEADERS => p \in result.ret
        /\ result.ret \subseteq arg.headers

\* KEEP-ALIVE and transfer-encoding were stripped and a custom header was
\* relayed
C25_Witness ==
    /\ Relayed
    /\ arg.headers = {<<Upper(H_keep_alive), "timeout=5">>,
                      <<H_transfer_encoding, "chunked">>,
                      <<H_x_custom_response, "from-downstream">>}
    /\ result.ret = {<<H_x_custom_response, "from-downstream">>}

(***************************************************************************)
(* Relaying, ordering and isolation (checked under Spec).                  *)
(***************************************************************************)
\* the transport came back with a response for the request of task t
Answered(t) ==
    /\ local[t].error = None
    /\ local[t].downstream_response # NoResponse

\* C24: a downstream response with status >= 400 is no dispatch failure:
\* the caller receives the downstream's status code and body unchanged,
\* not a 502 or 504 put in their place, and the status only decides
\* whether the request is counted as an error.
C24_ErrorStatusRelayed ==
    \A t \in Tasks :
        Done(t) /\ Answered(t) =>
            LET r == local[t].downstream_response
            IN /\ response[t].status_code = r.status_code
               /\ response[t].content = r.content
               /\ response[t].headers = _filter_response_headers(r.headers)
               /\ Len(local[t].calls) = 1
               /\ local[t].calls[1].is_error <=> r.status_code >= 400

\* a downstream 500 reached the caller as 500 and was counted as an error
C24_Witness ==
    \E t \in Tasks :
        /\ Done(t)
        /\ Answered(t)
        /\ local[t].downstream_response.status_code = 500
        /\ response[t].status_code = 500
        /\ response[t].content = "downstream"
        /\ local[t].calls[1].is_error

\* the invocations of the transport for the request of task t
Transports(t) ==
    Cardinality({i \in 1..Len(events[t]) : events[t][i] = "transport"})

\* the request of task t was posted once, to the URL of the first rule of
\* the configuration that fully matches its entity
PostedToFirstMatch(t) ==
    /\ Transports(t) = 1
    /\ Len(local[t].posted) = 1
    /\ \E i \in 1..Len(app_state.config.rules) :
          /\ FullyMatches(local[t].pokemon, app_state.config.rules[i])
          /\ \A j \in 1..(i - 1) :
                ~FullyMatches(local[t].pokemon, app_state.config.rules[j])
          /\ local[t].posted[1] = app_state.config.rules[i].url

NotPosted(t) == Transports(t) = 0 /\ local[t].posted = <<>>

\* C26: each request causes at most one invocation of the transport, to
\* the URL of the first matching rule: one when a rule matched, none
\* otherwise; after a transport failure the transport is not invoked again.
C26_OneTransportInvocation ==
    \A t \in Tasks :
        /\ Transports(t) <= 1
        /\ Done(t) => IF Matched(t) THEN PostedToFirstMatch(t)
                      ELSE NotPosted(t)

\* C26 (amended): as C26, but a matched request is posted only when the
\* transport client exists; without one, no invocation is made.
C26_OneTransportInvocationWithClient ==
    \A t \in Tasks :
        /\ Transports(t) <= 1
        /\ Len(local[t].posted) <= 1
        /\ Done(t) => IF Matched(t) /\ app_state.http_client # None
                      THEN PostedToFirstMatch(t)
                      ELSE NotPosted(t)

\* a request whose entity satisfies two rules ended, its transport having
\* timed out, with one invocation, to the URL of the first
C26_Witness ==
    \E t \in Tasks :
        /\ Done(t)
        /\ local[t].error = "ReadTimeout"
        /\ Cardinality({i \in 1..Len(app_state.config.rules) :
               FullyMatches(local[t].pokemon, app_state.config.rules[i])}) = 2
        /\ local[t].posted = <<app_state.config.rules[1].url>>
        /\ Transports(t) = 1

\* the rule engine returned None for the request of task t
Unmatched(t) ==
    /\ Decoded(t)
    /\ Invoked(t, "rule_engine")
    /\ ~Matched(t)
    /\ find_matching_rule(local[t].pokemon, app_state.config.rules)
          = Return(NoRule)

\* the stages in the order stream runs them, for a matched request and for
\* an unmatched one
StagesMatched ==
    <<"validate_signature", "decoder", "rule_engine", "transport",
      "record_request", "recorded">>
StagesUnmatched ==
    <<"validate_signature", "decoder", "rule_engine", "record_request",
      "recorded">>

IsPrefix(s, full) == Len(s) <= Len(full) /\ s = SubSeq(full, 1, Len(s))

\* the stages of task t ran in order, and no answer exists before the
\* record_request call has completed
RecordedBeforeAnswer(t) ==
    /\ IsPrefix(events[t],
                IF Matched(t) THEN StagesMatched ELSE StagesUnmatched)
    /\ response[t] # NoResponse => Completed(t) = 1
    /\ Done(t) => response[t] # NoResponse /\ Completed(t) = 1

\* C27: within one request the stages are strictly ordered and the
\* metrics record precedes the response: for every request that reaches
\* Matched or Unmatched, its record_request call has completed before the
\* response, or the mapped 502/504, is returned; none is returned first.
C27_RecordPrecedesResponse ==
    \A t \in Tasks :
        Matched(t) \/ Unmatched(t) => RecordedBeforeAnswer(t)

\* C27 (where the code agrees with it): the same, for the requests that
\* are unmatched or matched with a transport client initialised.
RecordPrecedesResponseWithClient ==
    \A t \in Tasks :
        \/ Matched(t) /\ app_state.http_client # None
        \/ Unmatched(t)
        => RecordedBeforeAnswer(t)

\* a request whose transport failed was answered 502 after its record
RecordPrecedesResponseReached ==
    \E t \in Tasks :
        /\ Done(t)
        /\ Matched(t)
        /\ response[t].status_code = 502
        /\ events[t] = StagesMatched

\* a matched request was answered 500 without any record
AnsweredUnrecorded ==
    \E t \in Tasks :
        /\ Done(t)
        /\ Matched(t)
        /\ response[t].status_code = 500
        /\ local[t].calls = <<>>
        /\ Completed(t) = 0

(***************************************************************************)
(* The frame of record_request (checked under SpecStore).                  *)
(***************************************************************************)
\* the identities of s that are in K, in the order of s
KeysWithin(s, K) ==
    LET Kept(u) == u \in K
    IN SelectSeq(Keys(s), Kept)

\* the identities a step of the call in progress leaves in the store, the
\* identity of the call apart
Bystanders ==
    (KeySet(stats) \cap KeySet(stats'))
       \ (IF lock = None THEN {} ELSE {call[lock].url})

PairRequests ==
    {<<B_mew, Absent, Signed(B_mew)>>, <<B_pika, Absent, Signed(B_pika)>>,
     <<B_mew, Absent, Forged(B_mew)>>, <<B_drag, CL_max, Signed(B_drag)>>}

\* a request arrives for task t, whatever the other task is doing
ReceivePair(t) ==
    /\ pc[t] = "idle"
    /\ started < Cardinality(Tasks)
    /\ started' = started + 1
    /\ \E r \in PairRequests :
          request' = [request EXCEPT ![t] =
              [headers |-> WithHeader(WithHeader(BaseHeaders,
                               H_content_length, r[2]),
                               H_x_grd_signature, r[3]),
               body |-> r[1]]]
    /\ pc' = [pc EXCEPT ![t] = "validate"]
    /\ UNCHANGED <<arg, result, app_state, stats, lock, local, call,
                   response, events, clock, lastCall, lastUrl, tally,
                   evicted>>

NextPair ==
    \E t \in Tasks :
       \/ ReceivePair(t)
       \/ Validate(t)
       \/ ReadBody(t)
       \/ Forward(t)
       \/ record_request(t)
       \/ RespondNoMatch(t)
       \/ Finish(t)

SpecPair == Init /\ [][NextPair]_vars

\* the answer an exception raised by the handler becomes
AnswerOf(exc) ==
    [status_code |-> exc.status_code, content |-> exc.detail, headers |-> {}]

\* the answer to the request of task t as a function of the request, the
\* configuration, the secret, the client and the request's own transport
\* result, stage by stage
OwnRouted(t, matched) ==
    IF matched.exc.type # None THEN AnswerOf(matched.exc)
    ELSE IF matched.val = NoRule
    THEN [status_code |-> 200, content |-> NO_MATCH,
          headers |-> {<<H_content_type, "application/json">>}]
    ELSE IF app_state.http_client = None
    THEN AnswerOf(HTTPException(500, "Internal server error"))
    ELSE IF local[t].error # None
    THEN AnswerOf(_map_downstream_error(local[t].error, matched.val.url))
    ELSE [status_code |-> local[t].downstream_response.status_code,
          content |-> local[t].downstream_response.content,
          headers |-> _filter_response_headers(
                         local[t].downstream_response.headers)]

OwnParsed(t, parsed) ==
    IF parsed.exc.type # None THEN AnswerOf(parsed.exc)
    ELSE OwnRouted(t, match_routing_rule(parsed.val))

OwnSigned(t, exc) ==
    IF exc.type # None THEN AnswerOf(exc)
    ELSE OwnParsed(t, parse_pokemon_protobuf(request[t].body))

OwnBody(t, exc) ==
    IF exc.type # None THEN AnswerOf(exc)
    ELSE OwnSigned(t, check_signature(request[t].headers, request[t].body))

OwnDeclared(t, exc) ==
    IF exc.type # None THEN AnswerOf(exc)
    ELSE OwnBody(t, check_body(request[t].body))

OwnAnswer(t) == OwnDeclared(t, validate_declared(request[t].headers))

\* C29: requests are isolated from each other: with two requests in
\* flight, the response returned to one (status, body and headers) is a
\* function of its own body and headers, the rule set, the secret and its
\* own transport result, the same under every interleaving with the other
\* request and whatever the other's outcome.
C29_RequestsIsolated ==
    \A t \in Tasks : Done(t) => response[t] = OwnAnswer(t)

\* a request was answered with the downstream's 200 while the other, both
\* matched and in flight, had its transport time out
C29_Witness ==
    \E t \in Tasks, o \in Tasks :
        /\ t # o
        /\ Done(t)
        /\ response[t].status_code = 200
        /\ response[t].content = "downstream"
        /\ pc[o] = "rr_acquire"
        /\ local[o].error = "ReadTimeout"
        /\ Matched(o)

\* both requests ended, one relayed and one answered 504
PairEndedApart ==
    \E t \in Tasks, o \in Tasks :
        /\ Done(t) /\ Done(o)
        /\ response[t].status_code = 200
        /\ response[o].status_code = 504

(***************************************************************************)
(* What a status tells the caller (checked under Spec).                    *)
(***************************************************************************)
\* the request of task t fails one of the checks of authentication and
\* validation: declared length, signature, size, emptiness, decoding
Invalid(t) ==
    \/ validate_declared(request[t].headers).type # None
    \/ check_body(request[t].body).type # None
    \/ check_signature(request[t].headers, request[t].body).type # None
    \/ parse_pokemon_protobuf(request[t].body).exc.type # None

\* C30: from the status the caller can tell a bad request from an
\* unavailable destination: 400, 401 or 413 is returned only when the
\* request itself failed authentication or validation, and 502 or 504 only
\* when the dispatch to the destination failed.
C30_StatusTellsApart ==
    \A t \in Tasks :
        Done(t) =>
            /\ response[t].status_code \in {400, 401, 413} => Invalid(t)
            /\ response[t].status_code \in {502, 504} =>
                  local[t].error # None

\* C30 (amended): the same of the statuses the proxy itself produces; a
\* response of the destination is relayed with its own status, which can
\* be any of these.
C30_OwnStatusTellsApart ==
    \A t \in Tasks :
        Done(t) =>
            IF Answered(t)
            THEN /\ ~Invalid(t)
                 /\ response[t].status_code =
                       local[t].downstream_response.status_code
            ELSE /\ response[t].status_code \in {400, 401, 413}
                       => Invalid(t) /\ ~Invoked(t, "transport")
                 /\ response[t].status_code \in {502, 504}
                       => local[t].error # None /\ ~Invalid(t)

\* a valid request whose destination refused the connection got 502
C30_Witness ==
    \E t \in Tasks :
        /\ Done(t)
        /\ ~Invalid(t)
        /\ local[t].error = "ConnectError"
        /\ response[t].status_code = 502

\* a valid request got the 400 of the destination
RelayedClientStatus ==
    \E t \in Tasks :
        /\ Done(t)
        /\ ~Invalid(t)
        /\ Answered(t)
        /\ response[t].status_code = 400

\* a dispatch that succeeded got the 502 of the destination
RelayedGatewayStatus ==
    \E t \in Tasks :
        /\ Done(t)
        /\ Answered(t)
        /\ response[t].status_code = 502

(***************************************************************************)
(* get_all_stats (stats.py lines 82-85) and EndpointStats.to_dict (lines   *)
(* 37-45).  A float the code rounds to two decimals is held as the integer *)
(* number of hundredths; an unrounded float is the quotient num/den of two *)
(* naturals.                                                               *)
(***************************************************************************)
Ratio(num, den) == [num |-> num, den |-> den]

\* a derived rate that is read from a stored field instead of recomputed
StoredRate(st) == Ratio(0, 1)

\* the property error_rate, lines 25-29
error_rate(st) ==
    IF st.request_count = 0 THEN Ratio(0, 1)
    ELSE Ratio(st.error_count * 100, st.request_count)

\* the property avg_response_time_ms, lines 31-35
avg_response_time_ms(st) ==
    IF st.request_count = 0 THEN Ratio(0, 1)
    ELSE Ratio(st.total_response_time_ms, st.request_count)

\* round(x, 2) in hundredths: the nearest hundredth, a tie going to the
\* even one
round2(x) ==
    LET q == (x.num * 100) \div x.den
        r == (x.num * 100) % x.den
    IN IF 2 * r > x.den \/ (2 * r = x.den /\ q % 2 = 1) THEN q + 1 ELSE q

\* EndpointStats.to_dict
to_dict(st) ==
    [request_count |-> st.request_count,
     error_count |-> st.error_count,
     error_rate_percent |-> round2(error_rate(st)),
     incoming_bytes |-> st.incoming_bytes,
     outgoing_bytes |-> st.outgoing_bytes,
     avg_response_time_ms |-> round2(avg_response_time_ms(st))]

\* `{url: stats.to_dict() for url, stats in self._stats.items()}`, in the
\* order of the dict
Snapshot(s) == [i \in 1..Len(s) |-> [url |-> s[i].url, d |-> to_dict(s[i].st)]]

\* a read that moves the first entry to the end of the dict
ReadTouches(s) == IF s = <<>> THEN s ELSE Tail(s) \o <<Head(s)>>

\* the dict after the comprehension of line 85: `.items()` and to_dict
\* only read it
AfterRead(s) == s

\* an entry of get_all_stats that does not wait for the lock
gs_barge(t) ==
    /\ pc[t] = "gs_acquire"
    /\ pc' = [pc EXCEPT ![t] = "gs_read"]
    /\ UNCHANGED <<arg, result, app_state, stats, lock, request, local, call,
                   response, events, clock, lastCall, lastUrl, tally,
                   evicted, started>>

\* `async with self._lock:` entry of get_all_stats
gs_acquire(t) ==
    /\ pc[t] = "gs_acquire"
    /\ LockFree(lock)
    /\ lock' = t
    /\ pc' = [pc EXCEPT ![t] = "gs_read"]
    /\ UNCHANGED <<arg, result, app_state, stats, request, local, call,
                   response, events, clock, lastCall, lastUrl, tally,
                   evicted, started>>

\* a writer is waiting for the lock the reader holds
Waiting(t) == \E o \in Tasks \ {t} : pc[o] = "rr_acquire"

\* line 85 and the exit of `async with`: the mapping is built, the lock
\* released, and the mapping returned as the answer of GET /stats
gs_read(t) ==
    /\ pc[t] = "gs_read"
    /\ response' = [response EXCEPT ![t] =
                      [status_code |-> 200, content |-> Snapshot(stats),
                       headers |-> {<<H_content_type, "application/json">>}]]
    /\ stats' = AfterRead(stats)
    /\ lock' = None
    /\ events' = [events EXCEPT ![t] =
                    @ \o (IF Waiting(t) THEN <<"contended">> ELSE <<>>)
                      \o <<"snapshot">>]
    /\ pc' = [pc EXCEPT ![t] = "done"]
    /\ UNCHANGED <<arg, result, app_state, request, local, call,
                   clock, lastCall, lastUrl, tally, evicted, started>>

get_all_stats(t) ==
    \/ gs_acquire(t)
    \/ gs_read(t)

(***************************************************************************)
(* SpecSnap: tasks calling record_request and get_all_stats directly, in   *)
(* any interleaving.                                                       *)
(***************************************************************************)
MaxOps == 3

\* a task calls record_request(url, incoming, outgoing, ms, is_error)
CallRecordOp(t) ==
    /\ started < MaxOps
    /\ FirstFree(t)
    /\ started' = started + 1
    /\ \E u \in Urls, a \in CallArgs :
          call' = [call EXCEPT ![t] =
                     Frame(u, a.incoming, a.outgoing, a.ms, a.is_error,
                           "idle")]
    /\ pc' = [pc EXCEPT ![t] = "rr_acquire"]
    /\ events' = [events EXCEPT ![t] = <<>>]
    /\ response' = [response EXCEPT ![t] = NoResponse]
    /\ UNCHANGED <<arg, result, app_state, stats, lock, request, local,
                   clock, lastCall, lastUrl, tally, evicted>>

\* a task calls get_all_stats()
CallStats(t) ==
    /\ started < MaxOps
    /\ FirstFree(t)
    /\ started' = started + 1
    /\ pc' = [pc EXCEPT ![t] = "gs_acquire"]
    /\ events' = [events EXCEPT ![t] = <<>>]
    /\ response' = [response EXCEPT ![t] = NoResponse]
    /\ UNCHANGED <<arg, result, app_state, stats, lock, request, local, call,
                   clock, lastCall, lastUrl, tally, evicted>>

NextSnap ==
    \E t \in Tasks :
       \/ CallRecordOp(t)
       \/ CallStats(t)
       \/ record_request(t)
       \/ get_all_stats(t)

SpecSnap == InitStore /\ [][NextSnap]_vars

(***************************************************************************)
(* Properties of the counters (checked under SpecStore).                   *)
(***************************************************************************)
\* the calls on identity d that have executed lines 79-80 with is_error set
\* but not returned
ErrorsWritten(d) ==
    {t \in Tasks : /\ call[t].url = d
                   /\ pc[t] = "rr_release"
                   /\ call[t].is_error}

\* the sums over the calls on d completed since d was inserted
Sums(d) ==
    [request_count |-> tally[d].request_count,
     error_count |-> tally[d].error_count,
     incoming_bytes |-> tally[d].incoming_bytes,
     outgoing_bytes |-> tally[d].outgoing_bytes,
     total_response_time_ms |-> tally[d].total_response_time_ms]

\* C31: after any sequence of record_request calls on identity d with no
\* eviction of d in between, d's request_count is the number of those
\* calls, its error_count the number of them made with is_error set (the
\* count grows exactly when is_error is set), and its byte counters the
\* sums of the calls' byte arguments.
C31_CountersAreSums ==
    \A i \in 1..Len(stats) :
        LET d == stats[i].url
        IN /\ stats[i].st.error_count =
                  tally[d].error_count + Cardinality(ErrorsWritten(d))
           /\ stats[i].st.error_count <= stats[i].st.request_count
           /\ (lock = None => stats[i].st = Sums(d))

\* an identity has been called three times since its insertion, some of
\* the calls with is_error set and some without
C31_Witness ==
    /\ lock = None
    /\ \E i \in 1..Len(stats) :
          /\ stats[i].st.request_count = 3
          /\ stats[i].st.error_count \in {1, 2}
          /\ stats[i].st.incoming_bytes > 3

\* the counters one call with the arguments of frame c leaves on a fresh
\* entry
FirstCall(c) ==
    [request_count |-> 1,
     error_count |-> IF c.is_error THEN 1 ELSE 0,
     incoming_bytes |-> c.incoming_bytes,
     outgoing_bytes |-> c.outgoing_bytes,
     total_response_time_ms |-> c.response_time_ms]

\* task t is about to return from the first call on its identity since the
\* identity was (re)inserted
FirstSinceInsertion(t) ==
    /\ pc[t] = "rr_release"
    /\ tally[call[t].url].request_count = 0

\* C34: an evicted identity restarts from zero: the first record_request
\* call on it after the eviction leaves request_count = 1 and every other
\* counter equal to that call's own arguments, whatever the counters were
\* before the eviction.
C34_RestartsFromZero ==
    \A t \in Tasks :
        FirstSinceInsertion(t) =>
            /\ call[t].url \in KeySet(stats)
            /\ Get(stats, call[t].url) = FirstCall(call[t])

\* three identities were inserted by the first three calls, the third
\* insertion evicting the first identity; the fourth call is on that first
\* identity again, re-inserts it, and is about to return
C34_Witness ==
    \E t \in Tasks :
        /\ FirstSinceInsertion(t)
        /\ Len(stats) = 2
        /\ stats[2].url = call[t].url
        /\ stats[2].st.request_count = 1
        /\ tally[stats[2].url].inserted = 4
        /\ tally[stats[1].url].inserted = 3
        /\ evicted.inserted = 2
        /\ evicted.url \notin {None, stats[1].url, stats[2].url}

(***************************************************************************)
(* Properties of get_all_stats (checked under SpecSnap).                   *)
(***************************************************************************)
\* the last thing task t did was to return from get_all_stats; its answer
\* holds the mapping
HasSnapshot(t) ==
    /\ Len(events[t]) > 0
    /\ events[t][Len(events[t])] = "snapshot"

\* the step of task t that builds and returns the mapping
ReadStep(t) == pc[t] = "gs_read" /\ pc'[t] = "done"

\* the store as the completed calls alone leave it
CompleteStore ==
    [i \in 1..Len(stats) |-> [url |-> stats[i].url, st |-> Sums(stats[i].url)]]

\* C33: get_all_stats is serialized with record_request and returns a
\* point-in-time copy: the mapping it returns is the store as the calls
\* completed so far left it (never a half-applied update), and no later
\* step of another task changes a mapping already returned.
C33_Step ==
    \A t \in Tasks :
        /\ ReadStep(t) => response'[t].content = Snapshot(CompleteStore)
        /\ (HasSnapshot(t) /\ pc'[t] = pc[t] => response'[t] = response[t])

C33_PointInTimeCopy == [][C33_Step]_vars

\* a mapping was returned while a writer waited for the lock; the writer
\* has completed since, and the store now counts more requests than the
\* mapping returned
C33_Witness ==
    \E t \in Tasks :
        /\ HasSnapshot(t)
        /\ lock = None
        /\ "contended" \in Range(events[t])
        /\ \E i \in 1..Len(response[t].content) :
              LET e == response[t].content[i]
              IN /\ e.url \in KeySet(stats)
                 /\ e.d.request_count >= 1
                 /\ Get(stats, e.url).request_count > e.d.request_count

\* the counters c (a stored entry or an entry of a returned mapping) are
\* those of at least one request
WellFormed(c) ==
    /\ c.request_count >= 1
    /\ 0 <= c.error_count
    /\ c.error_count <= c.request_count
    /\ c.incoming_bytes >= 0
    /\ c.outgoing_bytes >= 0

\* C38: at every point where the lock is free every stored entry has
\* request_count >= 1, 0 <= error_count <= request_count and non-negative
\* byte counters, and so has every entry of every mapping get_all_stats
\* returns: no entry with zero requests is observable.
C38_EntriesWellFormed ==
    /\ (lock = None => \A i \in 1..Len(stats) : WellFormed(stats[i].st))
    /\ \A t \in Tasks :
          HasSnapshot(t) =>
              \A i \in 1..Len(response[t].content) :
                  WellFormed(response[t].content[i].d)

\* a mapping was returned that holds an identity all of whose requests were
\* errors and an identity without any error
C38_Witness ==
    \E t \in Tasks :
        /\ HasSnapshot(t)
        /\ \E i, j \in 1..Len(response[t].content) :
              /\ response[t].content[i].d.error_count =
                     response[t].content[i].d.request_count
              /\ response[t].content[j].d.error_count = 0

\* a step of get_all_stats by task t
StatsStep(t) == pc[t] \in {"gs_acquire", "gs_read"} /\ pc'[t] # pc[t]

\* C39: get_all_stats leaves the store unchanged: no counter, no identity
\* and no position in the recency order changes, so the insertion of any
\* identity after the read evicts what it would have evicted before it.
C39_Step ==
    \A t \in Tasks :
        StatsStep(t) =>
            /\ stats' = stats
            /\ \A u \in Urls : Lookup(stats', u) = Lookup(stats, u)

C39_ReadFrame == [][C39_Step]_vars

\* a mapping was returned from a store at capacity, and the store still
\* holds the same identities in the same order
C39_Witness ==
    \E t \in Tasks :
        /\ HasSnapshot(t)
        /\ Len(stats) = MAX_ENDPOINTS
        /\ Len(response[t].content) = MAX_ENDPOINTS
        /\ \A i \in 1..MAX_ENDPOINTS :
              /\ response[t].content[i].url = stats[i].url
              /\ response[t].content[i].d.request_count =
                     stats[i].st.request_count

(***************************************************************************)
(* SpecRate: to_dict applied to the counters record_request can leave.     *)
(***************************************************************************)
MaxCount == 5

\* the counters of an entry after n calls, e of them errors: the fresh
\* entry, and entries whose calls carried the least or the most bytes and
\* time
Counters ==
    {[request_count |-> n, error_count |-> e, incoming_bytes |-> n * b,
      outgoing_bytes |-> e, total_response_time_ms |-> n * ms] :
        n \in 1..MaxCount, e \in 0..MaxCount, b \in {1, MaxBytes},
        ms \in {0, MaxElapsed}}

ReachableCounters ==
    {EndpointStats} \cup {c \in Counters : c.error_count <= c.request_count}

ChooseCounters ==
    /\ arg = NoArg
    /\ \E c \in ReachableCounters : arg' = [f |-> "to_dict", st |-> c]
    /\ UNCHANGED <<result, app_state, stats, lock, pc, request, local, call,
                   response, events, clock, lastCall, lastUrl, tally,
                   evicted, started>>

\* result = arg.st.to_dict()
ApplyToDict ==
    /\ arg # NoArg
    /\ ~result.done
    /\ result' = [done |-> TRUE, ret |-> to_dict(arg.st)]
    /\ UNCHANGED <<arg, app_state, stats, lock, pc, request, local, call,
                   response, events, clock, lastCall, lastUrl, tally,
                   evicted, started>>

NextRate == ChooseCounters \/ ApplyToDict

SpecRate == InitRules /\ [][NextRate]_vars

\* the error rate reported (in hundredths of a percent) lies between 0 and
\* 100, is 0 for an entry without requests, and is 20 for 5 requests with
\* exactly 1 error
RateInRange ==
    /\ result.ret.error_rate_percent >= 0
    /\ result.ret.error_rate_percent <= 100 * 100
    /\ (arg.st.request_count = 0 => result.ret.error_rate_percent = 0)
    /\ (arg.st.request_count = 5 /\ arg.st.error_count = 1
           => result.ret.error_rate_percent = 20 * 100)

\* C32: the error rate get_all_stats reports is recomputed from the raw
\* counters: it equals error_count * 100 / request_count (0 when
\* request_count is 0), lies between 0 and 100, and is 20 for 5 requests
\* with exactly 1 error.
C32_ErrorRateIsQuotient ==
    result.done =>
        /\ RateInRange
        /\ result.ret.error_rate_percent * arg.st.request_count
               = arg.st.error_count * 100 * 100

\* the distance between a and b
Dist(a, b) == IF a >= b THEN a - b ELSE b - a

\* C32 as the code has it: the rate reported is the quotient
\* error_count * 100 / request_count rounded to two decimals (the nearest
\* hundredth), recomputed from the raw counters at every read; it lies
\* between 0 and 100, is 0 without requests and 20 for 5 requests with
\* exactly 1 error.
C32_ErrorRateIsRoundedQuotient ==
    result.done =>
        /\ RateInRange
        /\ 2 * Dist(result.ret.error_rate_percent * arg.st.request_count,
                    arg.st.error_count * 100 * 100)
               <= arg.st.request_count
        /\ result.ret.request_count = arg.st.request_count
        /\ result.ret.error_count = arg.st.error_count

\* 2 errors in 3 requests were reported as 66.67
C32_Witness ==
    /\ result.done
    /\ arg.st.request_count = 3
    /\ arg.st.error_count = 2
    /\ result.ret.error_rate_percent = 6667

\* 1 error in 5 requests was reported as 20
OneInFiveReached ==
    /\ result.done
    /\ arg.st.request_count = 5
    /\ arg.st.error_count = 1
    /\ result.ret.error_rate_percent = 2000

(***************************************************************************)
(* The order of the checks of validate_request_signature (checked under    *)
(* Spec).                                                                  *)
(***************************************************************************)
\* the first check, in the order of the claim, the request of task t
\* fails: the exception it raises, or NoExc when the request passes all
FirstFailing(t) ==
    IF DeclaredOver(t)
    THEN HTTPException(413, "Request body too large")
    ELSE IF ~Truthy(Presented(t, H_x_grd_signature))
    THEN HTTPException(401, "Missing X-Grd-Signature header")
    ELSE IF app_state.secret = None
    THEN HTTPException(500, "Internal server error")
    ELSE IF ActualOver(t)
    THEN HTTPException(413, "Request body too large")
    ELSE IF request[t].body = <<>>
    THEN HTTPException(400, "Empty request body")
    ELSE IF Presented(t, H_x_grd_signature).v
               # hexdigest(app_state.secret, request[t].body)
    THEN HTTPException(401, "Invalid signature")
    ELSE NoExc

\* C35: validate_request_signature applies its checks in a fixed order and
\* the first failing check alone determines the outcome: declared length
\* over the maximum (413), missing signature (401), no secret configured
\* (500), body over the maximum (413), empty body (400), signature
\* mismatch (401).  A missing signature gives 401 even with an empty body
\* or no secret, and a declared length that is no number is ignored.  A
\* request that passes every check reaches the decoder.
C35_FirstFailingCheckDecides ==
    \A t \in Tasks :
        pc[t] \notin {"idle", "validate", "read_body"} =>
            IF FirstFailing(t) = NoExc
            THEN /\ Invoked(t, "decoder")
                 /\ local[t].body = request[t].body
            ELSE /\ Done(t)
                 /\ response[t] = AnswerOf(FirstFailing(t))
                 /\ ShortCircuited(t)

\* a request whose declared length is no number and whose signature is the
\* digest of another body was rejected for the signature, after its body
\* had been read
C35_Witness ==
    \E t \in Tasks :
        /\ Done(t)
        /\ Presented(t, H_content_length) = CL_word
        /\ local[t].body = B_pika
        /\ response[t].status_code = 401
        /\ response[t].content = "Invalid signature"

\* a request without signature, with an oversized body and no secret
\* configured, was rejected for the missing signature
MissingSignatureFirst ==
    \E t \in Tasks :
        /\ Done(t)
        /\ app_state.secret = None
        /\ ActualOver(t)
        /\ ~DeclaredOver(t)
        /\ response[t].status_code = 401
        /\ response[t].content = "Missing X-Grd-Signature header"

(***************************************************************************)
(* Boolean fields (checked under SpecCond).                                *)
(***************************************************************************)
\* the literals of the model that are truthy tokens: true, 1 or yes in any
\* letter case
TruthySpellings == {S_true, L_True, S_yes, L_YES, S_1}

\* the condition applied is legendary==X or legendary!=X
BooleanEquality ==
    /\ result.done
    /\ arg.name = S_legendary
    /\ arg.operator \in {<<"=", "=">>, <<"!", "=">>}

\* C36: on a Boolean field the literal is read as a truthy token (true
\* exactly when its lower-case form is one of true, 1, yes; false
\* otherwise): legendary==X is true exactly when the flag equals that
\* value, and legendary!=X exactly when it differs from it.
C36_BooleanLiteral ==
    BooleanEquality =>
        LET coerced == arg.literal \in TruthySpellings
        IN result.ret =
              Return(IF arg.operator = <<"=", "=">>
                     THEN arg.pokemon.legendary = coerced
                     ELSE arg.pokemon.legendary # coerced)

\* legendary==True, spelt with a capital, was true of a legendary entity
C36_Witness ==
    /\ BooleanEquality
    /\ arg.operator = <<"=", "=">>
    /\ arg.literal = L_True
    /\ arg.pokemon.legendary
    /\ result.ret = Return(TRUE)

\* legendary!=0 was true of a legendary entity, and legendary==abc of one
\* that is not legendary
FalsyTokenReached ==
    /\ BooleanEquality
    /\ \/ /\ arg.operator = <<"!", "=">>
          /\ arg.literal = L_0
          /\ arg.pokemon.legendary
       \/ /\ arg.operator = <<"=", "=">>
          /\ arg.literal = <<"a", "b", "c">>
          /\ ~arg.pokemon.legendary
    /\ result.ret = Return(TRUE)

(***************************************************************************)
(* The routing-reason header (checked under SpecHeaders).                  *)
(***************************************************************************)
\* the routing-reason headers among the headers sent: a header name is the
\* same header in any letter case
ReasonHeaders == {p \in result.ret : Lower(p[1]) = Lower(H_X_Grd_Reason)}

\* C37: for every inbound header dict, one that already holds a
\* routing-reason header in any letter case included, the headers sent
\* hold exactly one routing-reason value, the reason of the matched rule.
C37_OneReasonValue ==
    Forwarded =>
        ReasonHeaders = {<<H_X_Grd_Reason, "legendary pokemon">>}

\* the caller's x-grd-reason was sent to the destination beside the
\* reason of the rule
ClientReasonForwarded ==
    /\ Forwarded
    /\ <<Lower(H_X_Grd_Reason), "client">> \in arg.headers
    /\ <<Lower(H_X_Grd_Reason), "client">> \in result.ret
    /\ <<H_X_Grd_Reason, "legendary pokemon">> \in result.ret

(***************************************************************************)
(* SpecLive: two tasks, each handling a request to POST /stream or to GET  *)
(* /stats, under the scheduling of the event loop: a task that can run is  *)
(* run, and a transport call returns or fails.                             *)
(***************************************************************************)
\* a request to GET /stats arrives for task t
ReceiveStats(t) ==
    /\ pc[t] = "idle"
    /\ started < Cardinality(Tasks)
    /\ started' = started + 1
    /\ pc' = [pc EXCEPT ![t] = "gs_acquire"]
    /\ UNCHANGED <<arg, result, app_state, stats, lock, request, local, call,
                   response, events, clock, lastCall, lastUrl, tally,
                   evicted>>

\* the steps of the handler task t runs
Step(t) ==
    \/ Validate(t)
    \/ ReadBody(t)
    \/ Forward(t)
    \/ record_request(t)
    \/ RespondNoMatch(t)
    \/ Finish(t)
    \/ get_all_stats(t)

\* the requests to POST /stream: one a rule matches, one no rule matches,
\* one with a forged signature
LiveRequests ==
    {<<B_mew, Absent, Signed(B_mew)>>, <<B_pika, Absent, Signed(B_pika)>>,
     <<B_mew, Absent, Forged(B_mew)>>}

\* a request to POST /stream arrives for task t
ReceiveStream(t) ==
    /\ pc[t] = "idle"
    /\ started < Cardinality(Tasks)
    /\ started' = started + 1
    /\ \E r \in LiveRequests :
          request' = [request EXCEPT ![t] =
              [headers |-> WithHeader(WithHeader(BaseHeaders,
                               H_content_length, r[2]),
                               H_x_grd_signature, r[3]),
               body |-> r[1]]]
    /\ pc' = [pc EXCEPT ![t] = "validate"]
    /\ UNCHANGED <<arg, result, app_state, stats, lock, local, call,
                   response, events, clock, lastCall, lastUrl, tally,
                   evicted>>

\* the proxy configured with the sample rules and a secret, with or
\* without a transport client
InitLive ==
    /\ InitCommon
    /\ app_state \in [secret : {SECRET}, config : {Cfg_sample},
                      http_client : {None, "AsyncClient"}]

NextLive == \E t \in Tasks : ReceiveStream(t) \/ ReceiveStats(t) \/ Step(t)

\* the positions of a handler
Stages ==
    {"idle", "done", "validate", "read_body", "forward", "finish",
     "respond_no_match", "rr_acquire", "rr_lookup", "rr_load", "rr_store",
     "rr_error", "rr_release", "gs_acquire", "gs_read"}

\* task t is ready to run: its handler has started and not ended, and it
\* does not wait for a lock another task holds
Runnable(t) ==
    /\ pc[t] \notin {"idle", "done"}
    /\ (pc[t] \in {"rr_acquire", "gs_acquire"} => LockFree(lock))

\* the event loop runs task t: its handler moves to its next position.
\* These are the Step(t) steps (RunsIsStep), and Step(t) can be taken
\* exactly when t is Runnable.
Runs(t) ==
    /\ Runnable(t)
    /\ \E v \in Stages \ {pc[t]} : pc' = [pc EXCEPT ![t] = v]

\* the event loop runs every ready task: a task that stays ready is run.
\* A transport call is one step (Forward), so this includes that it
\* returns or fails.
Fairness == \A t \in Tasks : WF_pc(Runs(t))

SpecLive == InitLive /\ [][NextLive]_vars /\ Fairness

\* the steps the fairness condition is about are the steps of the handlers
RunsIsStep ==
    [][/\ \A t \in Tasks : Runs(t) <=> Step(t)
       /\ \A t \in Tasks : pc'[t] \in Stages]_vars

\* the lock is held only by a task inside the critical section of
\* record_request or of get_all_stats, which contains no await
HeldInsideOnly ==
    lock # None => \/ InCritical(lock)
                   \/ pc[lock] = "gs_read"

\* C40: every request eventually reaches its terminal state, answered with
\* a success or a mapped error, whatever the other task does: the lock is
\* held only inside the critical sections, never across a suspension point,
\* so no request or reader waits for it forever.
C40_EventuallyResponded ==
    /\ []HeldInsideOnly
    /\ \A t \in Tasks :
          (pc[t] # "idle") ~> (Done(t) /\ response[t].status_code # 0)

\* a reader held the lock while the record_request call of a forwarded
\* request waited for it, and both were answered
C40_Witness ==
    \E t, o \in Tasks :
        /\ Done(t) /\ Done(o)
        /\ HasSnapshot(t)
        /\ "contended" \in Range(events[t])
        /\ Invoked(o, "transport")
        /\ Invoked(o, "recorded")
        /\ response[o].status_code = 200
        /\ response[t].status_code = 200

=============================================================================
